---- MODULE Spec2Model ----
(***************************************************************************)
(* PulseChat: the username reservation protocol of the Firebase variant    *)
(* (js/username.js, utils.js cooldownDaysLeft, auth.js upsertUser).        *)
(*                                                                         *)
(* The store is two Firestore collections, users/{uid} and                 *)
(* usernames/{username}.  reserveUsername and reserveInitialUsername run   *)
(* inside runTransaction: the web SDK's transactions are optimistic, the   *)
(* callback reads with tx.get, buffers tx.delete / tx.set / tx.update, and *)
(* the commit applies the buffered writes atomically provided no document  *)
(* read by the callback changed since it was read; otherwise the callback  *)
(* is run again, up to a maximum number of attempts.                       *)
(***************************************************************************)
EXTENDS Integers, Sequences, FiniteSets, TLC

(* ---------------------------- bounds ----------------------------------- *)

\* number of call slots (calls that can be in flight at the same time)
MaxCalls == 2
\* number of commits the store accepts in one behaviour
MaxCommits == 2
\* attempts runTransaction makes before it gives up on contention (the SDK's
\* default is 5; a call needs more than one only when another commit got in
\* between its read and its commit)
MaxAttempts == 2
\* the clock runs over the instants around the first MaxWeeks week boundaries
MaxWeeks == 1
\* commits in a behaviour with one call at a time
MaxSeqCommits == 3
\* accounts racing for one handle
NumRacers == 3
\* the cooldown check is tried up to this many days after the last change
MaxElapsedDays == 8
\* row updates in a behaviour of the Supabase variant
MaxRowUpdates == 3
\* writes in a behaviour of the profile flows
MaxProfileCommits == 3
\* commits in a behaviour of the username functions with names of either case
MaxApiCommits == 2
\* writes the store accepts before the last call of the simplified signup is made
MaxSignupWrites == 4
\* sendMessage calls in SpecOpenChat
MaxOpenChatMessages == 2
\* sendMessage calls per chat in SpecChatRows
MaxRowMessages == 2
\* session events (sign-in, sign-out, token refresh) in a behaviour of onAuthChange
MaxAuthEvents == 3
\* chats selected on the chat page in one behaviour
MaxSelects == 4
\* sendMessage calls per chat in SpecChat
MaxMessages == 3
\* completed sends and clearUnread calls per chat in SpecChat
MaxChatEvents == 3
\* blockUser and unblockUser calls in SpecChat
MaxBlockWrites == 2

(* --------------------------- constants --------------------------------- *)

\* milliseconds in a day (utils.js cooldownDaysLeft)
DAY == 86400000
\* one second, in milliseconds: the resolution the boundary cases are stated at
SECOND == DAY \div 86400
\* reserveUsername passes 7 as cooldownDays
COOLDOWN_DAYS == 7
\* upsertUser: while (attempts < 5)
MAX_USERNAME_ATTEMPTS == 5
\* validateUsername: 3 to 20 characters
MIN_USERNAME_LENGTH == 3
MAX_USERNAME_LENGTH == 20
\* the characters of a message the chat list shows
PREVIEW_LENGTH == 80

Uids == {"u1", "u2"}
\* the handles callers ask for and generateUsername produces
Handles == {"alice", "bob"}
\* 'user_' + user.uid.slice(0, 8)
FallbackUsername(uid) == IF uid = "u1" THEN "user_u1" ELSE "user_u2"
AllHandles == Handles \cup {FallbackUsername(u) : u \in Uids}
\* oldUsername = null
NoName == "null"
Calls == 1..MaxCalls

\* the instants the clock can show: each week boundary and the second before it
TimePoints ==
  {t \in UNION {{w * COOLDOWN_DAYS * DAY - SECOND, w * COOLDOWN_DAYS * DAY} :
                 w \in 0..MaxWeeks} : t >= 0}

(* ------------------------ documents and results ------------------------ *)

\* snap.exists() = false
NoDoc == [exists |-> FALSE]
\* a field that was never written (undefined), and a Timestamp
Unset == <<>>
Stamp(t) == <<t>>

UsernameDoc(uid, ver) == [exists |-> TRUE, uid |-> uid, ver |-> ver]
\* displayName and photoURL as the sign-in provider gives them
AuthName == "auth name"
AuthPhoto == "null"
\* the values the profile page can set them to
DisplayNames == {AuthName, "edited name"}
PhotoURLs == {AuthPhoto, "uploaded photo"}

UserDoc(username, last, ver) ==
  [exists |-> TRUE, username |-> username, lastUsernameChange |-> last, ver |-> ver,
   displayName |-> AuthName, photoURL |-> AuthPhoto, lastPhotoChange |-> Unset,
   lastSeen |-> Stamp(0), blockedUsers |-> {}]

Ok == [err |-> "none", left |-> 0]
UsernameTaken == [err |-> "USERNAME_TAKEN", left |-> 0]
Cooldown(n) == [err |-> "COOLDOWN", left |-> n]
\* runTransaction gave up after MaxAttempts conflicting attempts
Aborted == [err |-> "ABORTED", left |-> 0]
\* a storage failure while the transaction was running
Unavailable == [err |-> "UNAVAILABLE", left |-> 0]
\* tx.update on a document that does not exist
NotFound == [err |-> "NOT_FOUND", left |-> 0]
Pending == [err |-> "pending", left |-> 0]

VARIABLES
  users,        \* users/{uid}
  usernames,    \* usernames/{username}
  now,          \* the clock (ms): Date.now() and serverTimestamp()
  seq,          \* number of commits so far: a document's update time
  calls,        \* the calls in flight, one per slot
  holds,        \* history: <<uid, h>> while uid holds h by its own calls
  changes,      \* history: per account, the times its reserveUsername calls committed
  fresh,        \* history: accounts whose reserveInitialUsername succeeded at this instant
  pre,          \* history: the store when the call in flight was made (one call at a time)
  rows,         \* Supabase variant: the rows of table users, by id
  chats,        \* chats/{chatId}
  messages,     \* chats/{chatId}/messages, in the order they were added
  sent,         \* history: per chat, the sendMessage calls completed and the clearUnread calls, in order
  auth,         \* Supabase variant: the session and the variables of onAuthChange
  page          \* the chat page of app.js: the open chat and its messages subscription

vars == <<users, usernames, now, seq, calls, holds, changes, fresh, pre,
          rows, chats, messages, sent, auth, page>>


(* ----------------------------- utils.js -------------------------------- *)

\* Math.ceil(a / b) for a > 0, b > 0
Ceil(a, b) == (a + b - 1) \div b

\* mutant: Math.floor in place of Math.ceil
cooldownDaysLeftFloor(ts, cooldownDays, t) ==
  IF ts = Unset THEN 0
  ELSE LET diff == cooldownDays * DAY - (t - ts[1])
       IN  IF diff > 0 THEN diff \div DAY ELSE 0

\* cooldownDaysLeft(ts, cooldownDays) evaluated when Date.now() = t
cooldownDaysLeft(ts, cooldownDays, t) ==
  IF ts = Unset THEN 0
  ELSE LET diff == cooldownDays * DAY - (t - ts[1])
       IN  IF diff > 0 THEN Ceil(diff, DAY) ELSE 0

\* the characters of the names, position by position
Spelling(name) ==
  CASE name = "alice" -> <<"a", "l", "i", "c", "e">>
    [] name = "Alice" -> <<"A", "l", "i", "c", "e">>
    [] name = "bob"   -> <<"b", "o", "b">>
    [] OTHER -> <<>>

\* the names callers pass to the username functions, well formed or not
ApiNames == {"alice", "Alice", "bob"}

UpperCase == <<"A", "B", "C", "D", "E", "F", "G", "H", "I", "J", "K", "L", "M",
               "N", "O", "P", "Q", "R", "S", "T", "U", "V", "W", "X", "Y", "Z">>
LowerCase == <<"a", "b", "c", "d", "e", "f", "g", "h", "i", "j", "k", "l", "m",
               "n", "o", "p", "q", "r", "s", "t", "u", "v", "w", "x", "y", "z">>
Digits == {"0", "1", "2", "3", "4", "5", "6", "7", "8", "9"}

\* String.prototype.toLowerCase, character by character
LowerChar(ch) ==
  IF \E i \in DOMAIN UpperCase : UpperCase[i] = ch
  THEN LowerCase[CHOOSE i \in DOMAIN UpperCase : UpperCase[i] = ch]
  ELSE ch

toLowerCase(name) ==
  LET sp == Spelling(name)
      low == [i \in DOMAIN sp |-> LowerChar(sp[i])]
  IN  CHOOSE n \in ApiNames : Spelling(n) = low

\* validateUsername(username).valid
validateUsername(name) ==
  LET sp == Spelling(name)
  IN  /\ sp # <<>>
      /\ Len(sp) >= MIN_USERNAME_LENGTH
      /\ Len(sp) <= MAX_USERNAME_LENGTH
      /\ \A i \in DOMAIN sp :
           sp[i] \in {LowerCase[j] : j \in DOMAIN LowerCase} \cup Digits \cup {"_"}
      /\ sp[1] # "_" /\ sp[Len(sp)] # "_"

(* ---------------------------- call records ----------------------------- *)

IdleCall ==
  [fn |-> "none", uid |-> "none", newUsername |-> NoName, oldUsername |-> NoName,
   pc |-> "idle", newSnap |-> NoDoc, userSnap |-> NoDoc, writes |-> <<>>,
   txAttempts |-> 0, attempts |-> 0, result |-> Pending,
   \* history: the user document was read right after the account's initial
   \* reservation; the reservation the commit deleted
   immediate |-> FALSE, deleted |-> NoDoc,
   \* the value a read returned (lookupUidByUsername, isUsernameAvailable), and
   \* history: the number of commits the store had seen when it was read
   found |-> "none", available |-> FALSE, at |-> 0,
   \* history: the read repeats the caller's previous read, no write in between
   again |-> FALSE,
   \* sendMessage(chatId, fromUid, toUid, text): fromUid is uid, and
   \* history: the receiver had the sender blocked when the call was made
   chatId |-> <<>>, to |-> "none", text |-> "", blocked |-> FALSE,
   \* getOrCreateChat: the snapshot of the chat document it read; Supabase
   \* sendMessage and markChatAsRead: the chat row they selected, and now = ts()
   chatSnap |-> NoDoc, ts |-> 0]

\* a call at the start of its runTransaction
TxCall(fn, uid, new, old) ==
  [IdleCall EXCEPT !.fn = fn, !.uid = uid, !.newUsername = new, !.oldUsername = old,
                   !.pc = "getNew", !.txAttempts = 1]

InTx(c) == calls[c].pc \in {"getNew", "getUser", "release", "reserve", "update", "commit"}
\* a new call takes the lowest free slot
LowestFree(c) ==
  calls[c].pc = "idle" /\ \A d \in DOMAIN calls : d < c => calls[d].pc # "idle"

\* a settled call hands its result to the caller before anything else runs
NoneDone == \A c \in DOMAIN calls : calls[c].pc # "done"

\* the transaction of call c runs reserveUsername's callback (lines 28-58);
\* otherwise it runs reserveInitialUsername's (lines 70-77)
IsChange(c) == calls[c].fn = "reserveUsername"

\* the promise of runTransaction settles with r: a direct call is finished,
\* upsertUser goes on in its try / catch
Settle(c, r) ==
  [calls[c] EXCEPT !.result = r,
                   !.pc = IF calls[c].fn = "upsertUser" THEN "settled" ELSE "done"]

(* ------------------------- the write buffer ---------------------------- *)

TxDelete(name) == [op |-> "delete", name |-> name, uid |-> "none", stamp |-> FALSE]
TxSet(name, uid) == [op |-> "set", name |-> name, uid |-> uid, stamp |-> FALSE]
TxUpdate(uid, name, stamp) == [op |-> "update", name |-> name, uid |-> uid, stamp |-> stamp]

\* the usernames collection after one write committed as version ver
WriteUsernames(un, w, ver) ==
  IF w.op = "delete" THEN [un EXCEPT ![w.name] = NoDoc]
  ELSE IF w.op = "set" THEN [un EXCEPT ![w.name] = UsernameDoc(w.uid, ver)]
  ELSE un

\* the users collection after one write committed at time t as version ver
WriteUsers(us, w, t, ver) ==
  IF w.op = "update"
  THEN [us EXCEPT ![w.uid] =
          [@ EXCEPT !.username = w.name,
                    !.lastUsernameChange = IF w.stamp THEN Stamp(t) ELSE @,
                    !.ver = ver]]
  ELSE us

RECURSIVE ApplyUsernames(_, _, _)
ApplyUsernames(un, ws, ver) ==
  IF ws = <<>> THEN un
  ELSE ApplyUsernames(WriteUsernames(un, Head(ws), ver), Tail(ws), ver)

RECURSIVE ApplyUsers(_, _, _, _)
ApplyUsers(us, ws, t, ver) ==
  IF ws = <<>> THEN us
  ELSE ApplyUsers(WriteUsers(us, Head(ws), t, ver), Tail(ws), t, ver)

\* tx.update requires its document to exist when the transaction commits
UpdatesExist(ws) ==
  \A i \in 1..Len(ws) : ws[i].op = "update" => users[ws[i].uid].exists

(* --------------------------- username.js ------------------------------- *)

\* mutant: any existing reservation counts as taken, the caller's own too
TakenByAnyone(snap, uid) == snap.exists

\* snap.exists() && snap.data().uid !== uid
TakenByOther(snap, uid) == snap.exists /\ snap.uid # uid

\* tx.get(newRef) and the "taken by someone else" check of both callbacks
TxGetNew(c) ==
  /\ NoneDone
  /\ calls[c].pc = "getNew"
  /\ LET snap == usernames[calls[c].newUsername]
         read == [calls[c] EXCEPT !.newSnap = snap]
     IN  calls' = [calls EXCEPT ![c] =
           IF TakenByOther(snap, calls[c].uid)
           THEN [Settle(c, UsernameTaken) EXCEPT !.newSnap = snap]
           ELSE [read EXCEPT !.pc = IF IsChange(c) THEN "getUser" ELSE "reserve"]]
  /\ UNCHANGED <<users, usernames, now, seq, holds, changes, fresh, pre,
               rows, chats, messages, sent,
                 auth, page>>

\* the cooldown check of reserveUsername on the user document it read at time t:
\* 0 lets the change through, n > 0 throws COOLDOWN:n
CooldownCheck(snap, t) ==
  IF snap.exists THEN cooldownDaysLeft(snap.lastUsernameChange, COOLDOWN_DAYS, t) ELSE 0

\* mutant: the new reservation is written (setDoc) before the cooldown check
TxGetUserClaimsFirst(c) ==
  /\ NoneDone
  /\ calls[c].pc = "getUser"
  /\ LET snap == users[calls[c].uid]
         left == cooldownDaysLeft(snap.lastUsernameChange, COOLDOWN_DAYS, now)
     IN  calls' = [calls EXCEPT ![c] =
           IF left > 0
           THEN [Settle(c, Cooldown(left)) EXCEPT !.userSnap = snap]
           ELSE [@ EXCEPT !.userSnap = snap, !.pc = "release"]]
  /\ usernames' = [usernames EXCEPT ![calls[c].newUsername] =
                     UsernameDoc(calls[c].uid, seq)]
  /\ UNCHANGED <<users, now, seq, holds, changes, fresh, pre,
                 rows, chats, messages, sent,
                 auth, page>>

\* tx.get(userRef) and the cooldown check (reserveUsername only)
TxGetUser(c) ==
  /\ NoneDone
  /\ calls[c].pc = "getUser"
  /\ LET snap == users[calls[c].uid]
         left == CooldownCheck(snap, now)
         read == [calls[c] EXCEPT
                    !.userSnap = snap,
                    !.immediate = /\ calls[c].uid \in fresh
                                  /\ changes[calls[c].uid] = <<>>]
     IN  calls' = [calls EXCEPT ![c] =
           IF left > 0
           THEN [Settle(c, Cooldown(left)) EXCEPT !.userSnap = snap,
                                                  !.immediate = read.immediate]
           ELSE [read EXCEPT !.pc = "release"]]
  /\ UNCHANGED <<users, usernames, now, seq, holds, changes, fresh, pre,
               rows, chats, messages, sent,
                 auth, page>>

\* mutant: the old reservation is deleted at once (deleteDoc), not with the commit
TxReleaseEager(c) ==
  /\ NoneDone
  /\ calls[c].pc = "release"
  /\ calls' = [calls EXCEPT ![c] = [@ EXCEPT !.pc = "reserve"]]
  /\ usernames' = IF /\ calls[c].oldUsername # NoName
                     /\ calls[c].oldUsername # calls[c].newUsername
                  THEN [usernames EXCEPT ![calls[c].oldUsername] = NoDoc]
                  ELSE usernames
  /\ UNCHANGED <<users, now, seq, holds, changes, fresh, pre,
               rows, chats, messages, sent,
                 auth, page>>

\* if (oldUsername && oldUsername !== newUsername) tx.delete(usernames/old)
TxRelease(c) ==
  /\ NoneDone
  /\ calls[c].pc = "release"
  /\ calls' = [calls EXCEPT ![c] =
       [@ EXCEPT !.pc = "reserve",
                 !.writes = IF /\ calls[c].oldUsername # NoName
                               /\ calls[c].oldUsername # calls[c].newUsername
                            THEN Append(@, TxDelete(calls[c].oldUsername))
                            ELSE @]]
  /\ UNCHANGED <<users, usernames, now, seq, holds, changes, fresh, pre,
               rows, chats, messages, sent,
                 auth, page>>

\* mutant: the new reservation is written at once (setDoc), not with the commit
TxReserveEager(c) ==
  /\ NoneDone
  /\ calls[c].pc = "reserve"
  /\ calls' = [calls EXCEPT ![c] = [@ EXCEPT !.pc = "update"]]
  /\ usernames' = [usernames EXCEPT ![calls[c].newUsername] =
                     UsernameDoc(calls[c].uid, seq)]
  /\ UNCHANGED <<users, now, seq, holds, changes, fresh, pre,
               rows, chats, messages, sent,
                 auth, page>>

\* tx.set(newRef, { uid, reservedAt })
TxReserve(c) ==
  /\ NoneDone
  /\ calls[c].pc = "reserve"
  /\ calls' = [calls EXCEPT ![c] =
       [@ EXCEPT !.pc = "update",
                 !.writes = Append(@, TxSet(calls[c].newUsername, calls[c].uid))]]
  /\ UNCHANGED <<users, usernames, now, seq, holds, changes, fresh, pre,
               rows, chats, messages, sent,
                 auth, page>>

\* mutant: reserveInitialUsername stamps lastUsernameChange too
TxUpdateUserStamped(c) ==
  /\ NoneDone
  /\ calls[c].pc = "update"
  /\ calls' = [calls EXCEPT ![c] =
       [@ EXCEPT !.pc = "commit",
                 !.writes = Append(@, TxUpdate(calls[c].uid, calls[c].newUsername, TRUE))]]
  /\ UNCHANGED <<users, usernames, now, seq, holds, changes, fresh, pre,
               rows, chats, messages, sent,
                 auth, page>>

\* tx.update(userRef, { username [, lastUsernameChange] })
TxUpdateUser(c) ==
  /\ NoneDone
  /\ calls[c].pc = "update"
  /\ calls' = [calls EXCEPT ![c] =
       [@ EXCEPT !.pc = "commit",
                 !.writes = Append(@, TxUpdate(calls[c].uid, calls[c].newUsername,
                                               IsChange(c)))]]
  /\ UNCHANGED <<users, usernames, now, seq, holds, changes, fresh, pre,
               rows, chats, messages, sent,
                 auth, page>>

\* mutant: no precondition at all (plain writes in place of a transaction)
ValidatesAlways(c) == TRUE

\* mutant: only the reservation read is checked, not the user document
ValidatesNewOnly(c) == calls[c].newSnap = usernames[calls[c].newUsername]

\* the commit's precondition: every document the callback read is unchanged
Validates(c) ==
  /\ calls[c].newSnap = usernames[calls[c].newUsername]
  /\ IsChange(c) => calls[c].userSnap = users[calls[c].uid]

\* the handles the successful call c releases, by the claim's bookkeeping
Released(c) ==
  IF IsChange(c) /\ calls[c].oldUsername # NoName
                 /\ calls[c].oldUsername # calls[c].newUsername
  THEN {<<calls[c].uid, calls[c].oldUsername>>}
  ELSE {}

\* runTransaction commits: retry on a conflict, else apply the buffer atomically
TxCommit(c) ==
  /\ NoneDone
  /\ calls[c].pc = "commit"
  /\ IF ~Validates(c)
     THEN /\ calls' = [calls EXCEPT ![c] =
               IF calls[c].txAttempts < MaxAttempts
               THEN [@ EXCEPT !.pc = "getNew", !.writes = <<>>, !.newSnap = NoDoc,
                              !.userSnap = NoDoc, !.immediate = FALSE,
                              !.txAttempts = @ + 1]
               ELSE Settle(c, Aborted)]
          /\ UNCHANGED <<users, usernames, seq, holds, changes, fresh>>
     ELSE IF ~UpdatesExist(calls[c].writes)
     THEN /\ calls' = [calls EXCEPT ![c] = Settle(c, NotFound)]
          /\ UNCHANGED <<users, usernames, seq, holds, changes, fresh>>
     ELSE /\ usernames' = ApplyUsernames(usernames, calls[c].writes, seq + 1)
          /\ users' = ApplyUsers(users, calls[c].writes, now, seq + 1)
          /\ seq' = seq + 1
          /\ calls' = [calls EXCEPT ![c] =
               [Settle(c, Ok) EXCEPT !.deleted =
                  IF Released(c) = {} THEN NoDoc ELSE usernames[calls[c].oldUsername]]]
          /\ holds' = (holds \ Released(c)) \cup {<<calls[c].uid, calls[c].newUsername>>}
          /\ changes' = IF IsChange(c)
                        THEN [changes EXCEPT ![calls[c].uid] = Append(@, now)]
                        ELSE changes
          /\ fresh' = IF IsChange(c) THEN fresh \ {calls[c].uid}
                      ELSE fresh \cup {calls[c].uid}
  /\ UNCHANGED <<now, pre,
               rows, chats, messages, sent,
                 auth, page>>

\* a storage failure, or the tab closing, while the transaction is running
TxFail(c) ==
  /\ NoneDone
  /\ InTx(c)
  /\ calls' = [calls EXCEPT ![c] = Settle(c, Unavailable)]
  /\ UNCHANGED <<users, usernames, now, seq, holds, changes, fresh, pre,
               rows, chats, messages, sent,
                 auth, page>>

\* reserveUsername(uid, newUsername, oldUsername) is called
StartReserveUsername(c, uid, new, old) ==
  /\ NoneDone
  /\ LowestFree(c)
  /\ users[uid].exists
  /\ calls' = [calls EXCEPT ![c] = TxCall("reserveUsername", uid, new, old)]
  /\ UNCHANGED <<users, usernames, now, seq, holds, changes, fresh,
               rows, chats, messages, sent,
                 auth, page>>

\* reserveInitialUsername(uid, username) is called
StartReserveInitialUsername(c, uid, username) ==
  /\ NoneDone
  /\ LowestFree(c)
  /\ users[uid].exists
  /\ calls' = [calls EXCEPT ![c] =
       TxCall("reserveInitialUsername", uid, username, NoName)]
  /\ UNCHANGED <<users, usernames, now, seq, holds, changes, fresh,
               rows, chats, messages, sent,
                 auth, page>>

\* the caller takes the result; the slot is free again
Return(c) ==
  /\ calls[c].pc = "done"
  /\ calls' = [calls EXCEPT ![c] = IdleCall]
  /\ UNCHANGED <<users, usernames, now, seq, holds, changes, fresh, pre,
               rows, chats, messages, sent,
                 auth, page>>

\* time passes
Tick ==
  /\ NoneDone
  /\ \E t \in TimePoints : t > now /\ now' = t
  /\ fresh' = {}
  /\ UNCHANGED <<users, usernames, seq, calls, holds, changes, pre,
               rows, chats, messages, sent,
                 auth, page>>

(* ----------------------- username.js: the reads ------------------------ *)

\* what a read call leaves in the slot the caller keeps its result in
ReadCall(r, fn, username, uid, snap) ==
  [IdleCall EXCEPT !.fn = fn, !.newUsername = username, !.uid = uid,
                   !.newSnap = snap, !.pc = "returned", !.at = seq,
                   !.again = /\ calls[r].fn = fn
                             /\ calls[r].newUsername = username
                             /\ calls[r].uid = uid
                             /\ calls[r].at = seq]

\* mutant: only a missing reservation counts as available
AvailableIfMissing(snap, uid) == ~snap.exists

\* if (!snap.exists()) return true; return snap.data().uid === uid
Available(snap, uid) == IF ~snap.exists THEN TRUE ELSE snap.uid = uid

\* isUsernameAvailable(username, uid): one getDoc of usernames/{username}
isUsernameAvailable(r, username, uid) ==
  /\ LET snap == usernames[username]
     IN  calls' = [calls EXCEPT ![r] =
           [ReadCall(r, "isUsernameAvailable", username, uid, snap)
              EXCEPT !.available = Available(snap, uid)]]
  /\ UNCHANGED <<users, usernames, now, seq, holds, changes, fresh, pre,
                 rows, chats, messages, sent,
                 auth, page>>

\* lookupUidByUsername(username): one getDoc of usernames/{username.toLowerCase()}
lookupUidByUsername(r, username) ==
  /\ LET snap == usernames[toLowerCase(username)]
     IN  calls' = [calls EXCEPT ![r] =
           [ReadCall(r, "lookupUidByUsername", username, "none", snap)
              EXCEPT !.found = IF snap.exists THEN snap.uid ELSE "null"]]
  /\ UNCHANGED <<users, usernames, now, seq, holds, changes, fresh, pre,
                 rows, chats, messages, sent,
                 auth, page>>

(* ------------------------- auth.js upsertUser -------------------------- *)

\* upsertUser(user) is called
StartUpsertUser(c, uid) ==
  /\ NoneDone
  /\ LowestFree(c)
  /\ calls' = [calls EXCEPT ![c] =
       [IdleCall EXCEPT !.fn = "upsertUser", !.uid = uid, !.pc = "getDoc"]]
  /\ UNCHANGED <<users, usernames, now, seq, holds, changes, fresh,
               rows, chats, messages, sent,
                 auth, page>>

\* snap = await getDoc(ref); a new account generates its first username
UpsertGetDoc(c, generated) ==
  /\ NoneDone
  /\ calls[c].pc = "getDoc"
  /\ calls' = [calls EXCEPT ![c] =
       IF users[calls[c].uid].exists
       THEN [@ EXCEPT !.userSnap = users[calls[c].uid], !.pc = "merge"]
       ELSE [@ EXCEPT !.newUsername = generated, !.attempts = 0, !.pc = "setDoc"]]
  /\ UNCHANGED <<users, usernames, now, seq, holds, changes, fresh, pre,
               rows, chats, messages, sent,
                 auth, page>>

\* setDoc(ref, { ...data, username }, { merge: true }): the fields it does not
\* name keep their value
MergeUsername(doc, username, ver) ==
  [(IF doc.exists THEN doc ELSE UserDoc(username, Unset, ver))
     EXCEPT !.username = username, !.displayName = AuthName, !.photoURL = AuthPhoto,
            !.lastSeen = Stamp(now), !.blockedUsers = {}, !.ver = ver]

\* lines 58 and 72: write the user document with the candidate username, then
\* enter reserveInitialUsername
UpsertSetDoc(c) ==
  /\ NoneDone
  /\ calls[c].pc = "setDoc"
  /\ users' = [users EXCEPT ![calls[c].uid] =
                 MergeUsername(@, calls[c].newUsername, seq + 1)]
  /\ seq' = seq + 1
  /\ calls' = [calls EXCEPT ![c] =
       [@ EXCEPT !.pc = "getNew", !.txAttempts = 1, !.writes = <<>>,
                 !.newSnap = NoDoc, !.result = Pending]]
  /\ UNCHANGED <<usernames, now, holds, changes, fresh, pre,
               rows, chats, messages, sent,
                 auth, page>>

\* mutant: the catch retries on every error
UpsertSettledRetriesAll(c, generated) ==
  /\ NoneDone
  /\ calls[c].pc = "settled"
  /\ calls' = [calls EXCEPT ![c] =
       IF calls[c].attempts >= MAX_USERNAME_ATTEMPTS
       THEN [@ EXCEPT !.pc = "done", !.result = Ok]
       ELSE IF calls[c].result # Ok
       THEN [@ EXCEPT !.attempts = @ + 1,
                      !.newUsername = IF calls[c].attempts + 1 < MAX_USERNAME_ATTEMPTS
                                      THEN generated
                                      ELSE FallbackUsername(calls[c].uid),
                      !.pc = "setDoc"]
       ELSE [@ EXCEPT !.pc = "done"]]
  /\ UNCHANGED <<users, usernames, now, seq, holds, changes, fresh, pre,
               rows, chats, messages, sent,
                 auth, page>>

\* the try / catch around reserveInitialUsername: return on success, generate
\* again on USERNAME_TAKEN, rethrow anything else; after the loop the fallback's
\* errors are swallowed
UpsertSettled(c, generated) ==
  /\ NoneDone
  /\ calls[c].pc = "settled"
  /\ calls' = [calls EXCEPT ![c] =
       IF calls[c].attempts >= MAX_USERNAME_ATTEMPTS
       THEN [@ EXCEPT !.pc = "done", !.result = Ok]
       ELSE IF calls[c].result = UsernameTaken
       THEN [@ EXCEPT !.attempts = @ + 1,
                      !.newUsername = IF calls[c].attempts + 1 < MAX_USERNAME_ATTEMPTS
                                      THEN generated
                                      ELSE FallbackUsername(calls[c].uid),
                      !.pc = "setDoc"]
       ELSE [@ EXCEPT !.pc = "done"]]
  /\ UNCHANGED <<users, usernames, now, seq, holds, changes, fresh, pre,
               rows, chats, messages, sent,
                 auth, page>>

\* an existing account: setDoc(ref, data, { merge: true }) touches lastSeen
UpsertMerge(c) ==
  /\ NoneDone
  /\ calls[c].pc = "merge"
  /\ users' = [users EXCEPT ![calls[c].uid] =
                 IF @.exists
                 THEN [@ EXCEPT !.displayName = AuthName, !.photoURL = AuthPhoto,
                                !.lastSeen = Stamp(now), !.ver = seq + 1]
                 ELSE @]
  /\ seq' = seq + 1
  /\ calls' = [calls EXCEPT ![c] = [@ EXCEPT !.pc = "done", !.result = Ok]]
  /\ UNCHANGED <<usernames, now, holds, changes, fresh, pre,
               rows, chats, messages, sent,
                 auth, page>>

(* ------------- public/assets/js/auth.js upsertUser (FIXED v2) ---------- *)

\* upsertUser(user) of the simplified signup is called
StartUpsertUserV2(c, uid) ==
  /\ NoneDone
  /\ LowestFree(c)
  /\ calls' = [calls EXCEPT ![c] =
       [IdleCall EXCEPT !.fn = "upsertUser (v2)", !.uid = uid, !.pc = "getDoc"]]
  /\ UNCHANGED <<users, usernames, now, seq, holds, changes, fresh, pre,
                 rows, chats, messages, sent,
                 auth, page>>

\* snap = await getDoc(ref); a new account generates its username
UpsertV2GetDoc(c, generated) ==
  /\ NoneDone
  /\ calls[c].fn = "upsertUser (v2)"
  /\ calls[c].pc = "getDoc"
  /\ calls' = [calls EXCEPT ![c] =
       IF users[calls[c].uid].exists
       THEN [@ EXCEPT !.userSnap = users[calls[c].uid], !.pc = "touch"]
       ELSE [@ EXCEPT !.newUsername = generated, !.pc = "setDoc"]]
  /\ UNCHANGED <<users, usernames, now, seq, holds, changes, fresh, pre,
                 rows, chats, messages, sent,
                 auth, page>>

\* getDoc rejects: the error is logged and the call returns null
UpsertV2GetDocFails(c) ==
  /\ NoneDone
  /\ calls[c].fn = "upsertUser (v2)"
  /\ calls[c].pc = "getDoc"
  /\ calls' = [calls EXCEPT ![c] = [@ EXCEPT !.pc = "done", !.result = Unavailable]]
  /\ UNCHANGED <<users, usernames, now, seq, holds, changes, fresh, pre,
                 rows, chats, messages, sent,
                 auth, page>>

\* an existing account: updateDoc(ref, { lastSeen }), errors swallowed, and
\* the call returns the snapshot
UpsertV2Touch(c) ==
  /\ NoneDone
  /\ calls[c].fn = "upsertUser (v2)"
  /\ calls[c].pc = "touch"
  /\ IF users[calls[c].uid].exists
     THEN /\ users' = [users EXCEPT ![calls[c].uid] =
                         [@ EXCEPT !.lastSeen = Stamp(now), !.ver = seq + 1]]
          /\ seq' = seq + 1
     ELSE UNCHANGED <<users, seq>>
  /\ calls' = [calls EXCEPT ![c] = [@ EXCEPT !.pc = "done", !.result = Ok]]
  /\ UNCHANGED <<usernames, now, holds, changes, fresh, pre,
                 rows, chats, messages, sent,
                 auth, page>>

\* await setDoc(ref, data): the whole user document, username included
UpsertV2SetUser(c) ==
  /\ NoneDone
  /\ calls[c].fn = "upsertUser (v2)"
  /\ calls[c].pc = "setDoc"
  /\ users' = [users EXCEPT ![calls[c].uid] =
       [UserDoc(calls[c].newUsername, Unset, seq + 1) EXCEPT !.lastSeen = Stamp(now)]]
  /\ seq' = seq + 1
  /\ calls' = [calls EXCEPT ![c] = [@ EXCEPT !.pc = "reserve"]]
  /\ UNCHANGED <<usernames, now, holds, changes, fresh, pre,
                 rows, chats, messages, sent,
                 auth, page>>

\* setDoc(doc(db, 'usernames', username), { uid, reservedAt }): a plain write
\* of the record, whatever it held; then the call returns data
UpsertV2SetUsername(c) ==
  /\ NoneDone
  /\ calls[c].fn = "upsertUser (v2)"
  /\ calls[c].pc = "reserve"
  /\ usernames' = [usernames EXCEPT ![calls[c].newUsername] =
                     UsernameDoc(calls[c].uid, seq + 1)]
  /\ seq' = seq + 1
  /\ calls' = [calls EXCEPT ![c] = [@ EXCEPT !.pc = "done", !.result = Ok]]
  /\ UNCHANGED <<users, now, holds, changes, fresh, pre,
                 rows, chats, messages, sent,
                 auth, page>>

\* the reservation write rejects: the error is logged ("non-fatal") and the
\* call returns data
UpsertV2SetUsernameFails(c) ==
  /\ NoneDone
  /\ calls[c].fn = "upsertUser (v2)"
  /\ calls[c].pc = "reserve"
  /\ calls' = [calls EXCEPT ![c] = [@ EXCEPT !.pc = "done", !.result = Ok]]
  /\ UNCHANGED <<users, usernames, now, seq, holds, changes, fresh, pre,
                 rows, chats, messages, sent,
                 auth, page>>

(* ------------------------------ users.js ------------------------------- *)

\* updateDoc(ref, fields): the named fields are replaced, the others kept
UpdateDoc(doc, fields, ver) ==
  [f \in DOMAIN doc |->
     IF f = "ver" THEN ver ELSE IF f \in DOMAIN fields THEN fields[f] ELSE doc[f]]

\* one updateDoc on users/{uid}; it rejects when the document does not exist
UpdateUser(uid, fields) ==
  /\ users[uid].exists
  /\ users' = [users EXCEPT ![uid] = UpdateDoc(@, fields, seq + 1)]
  /\ seq' = seq + 1
  /\ UNCHANGED <<usernames, now, calls, holds, changes, fresh, pre,
                 rows, chats, messages, sent,
                 auth, page>>

\* updateUserProfile(uid, fields): { ...fields, lastSeen: serverTimestamp() }
updateUserProfile(uid, fields) ==
  UpdateUser(uid, [f \in DOMAIN fields \cup {"lastSeen"} |->
                     IF f = "lastSeen" THEN Stamp(now) ELSE fields[f]])

\* mutant: the photo change is stamped on the username's timestamp
PhotoFieldsOnUsernameStamp(photoURL) ==
  [photoURL |-> photoURL, lastUsernameChange |-> Stamp(now)]

\* { photoURL, lastPhotoChange: serverTimestamp() }
PhotoFields(photoURL) == [photoURL |-> photoURL, lastPhotoChange |-> Stamp(now)]

updateProfilePhoto(uid, photoURL) == UpdateUser(uid, PhotoFields(photoURL))

\* touchLastSeen(uid); its errors are swallowed
touchLastSeen(uid) == UpdateUser(uid, [lastSeen |-> Stamp(now)])

\* blockUser(myUid, targetUid): blockedUsers: arrayUnion(targetUid)
blockUser(myUid, targetUid) ==
  UpdateUser(myUid, [blockedUsers |-> users[myUid].blockedUsers \cup {targetUid}])

\* unblockUser(myUid, targetUid): blockedUsers: arrayRemove(targetUid)
unblockUser(myUid, targetUid) ==
  UpdateUser(myUid, [blockedUsers |-> users[myUid].blockedUsers \ {targetUid}])

(* ------------------- auth-service.js (Supabase variant) ---------------- *)

\* a row of table users: the columns updateUsername reads and writes
Row(username, changedAt) == [username |-> username, username_changed_at |-> changedAt]

Taken == [err |-> "That username is already taken.", left |-> 0]
TooShort == [err |-> "Username must be at least 3 characters.", left |-> 0]
WaitDays(n) == [err |-> "You can change your username again in", left |-> n]
UpdateFailed == [err |-> "Failed to update username.", left |-> 0]

\* [a-z0-9_]
IsNameChar(ch) ==
  ch \in {LowerCase[j] : j \in DOMAIN LowerCase} \cup Digits \cup {"_"}

\* newUsername.toLowerCase().replace(/[^a-z0-9_]/g, '')
cleanUsername(raw) ==
  LET sp == Spelling(raw)
      low == [i \in DOMAIN sp |-> LowerChar(sp[i])]
  IN  CHOOSE n \in ApiNames : Spelling(n) = SelectSeq(low, IsNameChar)

\* updateUsername(uid, newUsername) is called; a name too short is refused at once
StartUpdateUsername(c, uid, raw) ==
  /\ NoneDone
  /\ LowestFree(c)
  /\ LET clean == cleanUsername(raw)
         call == [IdleCall EXCEPT !.fn = "updateUsername", !.uid = uid,
                                  !.newUsername = clean, !.oldUsername = raw]
     IN  calls' = [calls EXCEPT ![c] =
           IF Len(Spelling(clean)) < MIN_USERNAME_LENGTH
           THEN [call EXCEPT !.pc = "done", !.result = TooShort]
           ELSE [call EXCEPT !.pc = "cooldown"]]
  /\ UNCHANGED <<users, usernames, now, seq, holds, changes, fresh, pre,
                 rows, chats, messages, sent,
                 auth, page>>

\* days < 7 with days = (Date.now() - last) / 86400000: Math.ceil(7 - days)
DaysToWait(changedAt, t) ==
  IF changedAt = Unset THEN 0
  ELSE LET diff == t - changedAt[1]
       IN  IF diff < COOLDOWN_DAYS * DAY THEN Ceil(COOLDOWN_DAYS * DAY - diff, DAY) ELSE 0

\* select username_changed_at where id = uid, and the cooldown check
SelectChangedAt(c) ==
  /\ NoneDone
  /\ calls[c].pc = "cooldown"
  /\ LET left == DaysToWait(rows[calls[c].uid].username_changed_at, now)
     IN  calls' = [calls EXCEPT ![c] =
           IF left > 0 THEN [@ EXCEPT !.pc = "done", !.result = WaitDays(left)]
           ELSE [@ EXCEPT !.pc = "unique"]]
  /\ UNCHANGED <<users, usernames, now, seq, holds, changes, fresh, pre,
                 rows, chats, messages, sent,
                 auth, page>>

\* select id where username = clean and id <> uid, and the uniqueness check
SelectExisting(c) ==
  /\ NoneDone
  /\ calls[c].pc = "unique"
  /\ LET existing == {u \in DOMAIN rows :
                        u # calls[c].uid /\ rows[u].username = calls[c].newUsername}
     IN  calls' = [calls EXCEPT ![c] =
           IF existing # {} THEN [@ EXCEPT !.pc = "done", !.result = Taken]
           ELSE [@ EXCEPT !.pc = "update"]]
  /\ UNCHANGED <<users, usernames, now, seq, holds, changes, fresh, pre,
                 rows, chats, messages, sent,
                 auth, page>>

\* update users set username, username_changed_at where id = uid
UpdateRow(c) ==
  /\ NoneDone
  /\ calls[c].pc = "update"
  /\ rows' = [rows EXCEPT ![calls[c].uid] = Row(calls[c].newUsername, Stamp(now))]
  /\ seq' = seq + 1
  /\ changes' = [changes EXCEPT ![calls[c].uid] = Append(@, now)]
  /\ calls' = [calls EXCEPT ![c] = [@ EXCEPT !.pc = "done", !.result = Ok]]
  /\ UNCHANGED <<users, usernames, now, holds, fresh, pre, chats, messages, sent,
                 auth, page>>

\* the update comes back with an error (the database refused it, or was not
\* reached): nothing is written
UpdateRowError(c) ==
  /\ NoneDone
  /\ calls[c].pc = "update"
  /\ calls' = [calls EXCEPT ![c] = [@ EXCEPT !.pc = "done", !.result = UpdateFailed]]
  /\ UNCHANGED <<users, usernames, now, seq, holds, changes, fresh, pre,
                 rows, chats, messages, sent,
                 auth, page>>

(* ---------------------- chats.js and messages.js ----------------------- *)

\* the order [uidA, uidB].sort() puts the uids in
SortedUids == <<"u1", "u2">>
Rank(uid) == CHOOSE i \in DOMAIN SortedUids : SortedUids[i] = uid

\* [uidA, uidB].sort().join('_'), kept as the sorted pair
getChatId(uidA, uidB) ==
  IF Rank(uidA) <= Rank(uidB) THEN <<uidA, uidB>> ELSE <<uidB, uidA>>

\* the chats of two different accounts
ChatIds == {getChatId(a, b) : a, b \in Uids} \ {<<u, u>> : u \in Uids}

\* the texts a sender types, and text.trim()
Texts == {"hi", " "}
Trim(text) == IF text = " " THEN "" ELSE text
\* text.length
TextLength(text) == IF text = "hi" THEN 2 ELSE IF text = " " THEN 1 ELSE 0
\* text.length > 80 ? text.slice(0, 80) + '...' : text
Preview(text) ==
  IF TextLength(text) > PREVIEW_LENGTH THEN <<"slice(0, 80)", text, "...">> ELSE text

EmptyMessage == [err |-> "Empty message", left |-> 0]

\* the chat document getOrCreateChat(myUid, otherUid) writes at time t
NewChat(myUid, otherUid, t) ==
  [exists |-> TRUE, participants |-> {myUid, otherUid},
   participantsMap |-> [u \in {myUid, otherUid} |-> TRUE],
   lastMessageText |-> "", lastMessageAt |-> Stamp(t), lastMessageFrom |-> "null",
   unreadCount |-> [u \in {myUid, otherUid} |-> 0]]

\* getOrCreateChat(myUid, otherUid) is called
StartGetOrCreateChat(c, myUid, otherUid) ==
  /\ NoneDone
  /\ LowestFree(c)
  /\ calls' = [calls EXCEPT ![c] =
       [IdleCall EXCEPT !.fn = "getOrCreateChat", !.uid = myUid, !.to = otherUid,
                        !.chatId = getChatId(myUid, otherUid), !.pc = "getChat"]]
  /\ UNCHANGED <<users, usernames, now, seq, holds, changes, fresh, pre,
                 rows, chats, messages, sent,
                 auth, page>>

\* snap = await getDoc(ref): an existing chat is returned as it is
GetChatDoc(c) ==
  /\ NoneDone
  /\ calls[c].pc = "getChat"
  /\ calls' = [calls EXCEPT ![c] =
       IF chats[calls[c].chatId].exists
       THEN [@ EXCEPT !.chatSnap = chats[calls[c].chatId], !.pc = "done", !.result = Ok]
       ELSE [@ EXCEPT !.chatSnap = NoDoc, !.pc = "setChat"]]
  /\ UNCHANGED <<users, usernames, now, seq, holds, changes, fresh, pre,
                 rows, chats, messages, sent,
                 auth, page>>

\* if (!snap.exists()) await setDoc(ref, {...}): the document is written,
\* whatever the store holds by now
SetChatDoc(c) ==
  /\ NoneDone
  /\ calls[c].pc = "setChat"
  /\ chats' = [chats EXCEPT ![calls[c].chatId] = NewChat(calls[c].uid, calls[c].to, now)]
  /\ calls' = [calls EXCEPT ![c] = [@ EXCEPT !.pc = "done", !.result = Ok]]
  /\ UNCHANGED <<users, usernames, now, seq, holds, changes, fresh, pre,
                 rows, messages, sent,
                 auth, page>>

\* a document of chats/{chatId}/messages
Message(from, to, text, t) ==
  [from |-> from, to |-> to, text |-> text, createdAt |-> Stamp(t), type |-> "text"]

\* history: a sendMessage to uid completed, or uid called clearUnread
SendTo(uid) == [op |-> "send", uid |-> uid]
ClearBy(uid) == [op |-> "clear", uid |-> uid]

\* sendMessage(chatId, fromUid, toUid, text) is called; a blank text is refused
StartSendMessage(c, from, to, text) ==
  /\ NoneDone
  /\ LowestFree(c)
  /\ LET call == [IdleCall EXCEPT !.fn = "sendMessage", !.uid = from, !.to = to,
                                  !.chatId = getChatId(from, to), !.text = Trim(text),
                                  !.blocked = from \in users[to].blockedUsers]
     IN  calls' = [calls EXCEPT ![c] =
           IF Trim(text) = ""
           THEN [call EXCEPT !.pc = "done", !.result = EmptyMessage]
           ELSE [call EXCEPT !.pc = "addDoc"]]
  /\ UNCHANGED <<users, usernames, now, seq, holds, changes, fresh, pre,
                 rows, chats, messages, sent,
                 auth, page>>

\* addDoc(collection(db, 'chats', chatId, 'messages'), {...})
AddMessage(c) ==
  /\ NoneDone
  /\ calls[c].pc = "addDoc"
  /\ messages' = [messages EXCEPT ![calls[c].chatId] =
       Append(@, Message(calls[c].uid, calls[c].to, calls[c].text, now))]
  /\ calls' = [calls EXCEPT ![c] = [@ EXCEPT !.pc = "updateChatMeta"]]
  /\ UNCHANGED <<users, usernames, now, seq, holds, changes, fresh, pre,
                 rows, chats, sent,
                 auth, page>>

\* [`unreadCount.${receiverUid}`]: increment(1)
Incremented(counts, receiverUid) == [counts EXCEPT ![receiverUid] = @ + 1]

\* updateChatMeta(chatId, senderUid, receiverUid, text): one updateDoc, which
\* rejects when the chat document does not exist; sendMessage returns after it
updateChatMeta(c) ==
  /\ NoneDone
  /\ calls[c].pc = "updateChatMeta"
  /\ LET id == calls[c].chatId
     IN  IF chats[id].exists
         THEN /\ chats' = [chats EXCEPT ![id] =
                   [@ EXCEPT !.lastMessageText = Preview(calls[c].text),
                             !.lastMessageAt = Stamp(now),
                             !.lastMessageFrom = calls[c].uid,
                             !.unreadCount = Incremented(@, calls[c].to)]]
              /\ sent' = [sent EXCEPT ![id] = Append(@, SendTo(calls[c].to))]
              /\ calls' = [calls EXCEPT ![c] = [@ EXCEPT !.pc = "done", !.result = Ok]]
         ELSE /\ calls' = [calls EXCEPT ![c] =
                   [@ EXCEPT !.pc = "done", !.result = NotFound]]
              /\ UNCHANGED <<chats, sent>>
  /\ UNCHANGED <<users, usernames, now, seq, holds, changes, fresh, pre,
                 rows, messages,
                 auth, page>>

\* a write of sendMessage is rejected (the store is not reached): the call
\* throws with what it has written so far left in place
SendFails(c) ==
  /\ NoneDone
  /\ calls[c].pc \in {"addDoc", "updateChatMeta"}
  /\ calls' = [calls EXCEPT ![c] = [@ EXCEPT !.pc = "done", !.result = Unavailable]]
  /\ UNCHANGED <<users, usernames, now, seq, holds, changes, fresh, pre,
                 rows, chats, messages, sent,
                 auth, page>>

\* mutant: the update replaces the whole unreadCount map
ClearedAll(counts, myUid) == [u \in DOMAIN counts |-> 0]

\* { [`unreadCount.${myUid}`]: 0 }
Cleared(counts, myUid) == [counts EXCEPT ![myUid] = 0]

\* clearUnread(chatId, myUid): one updateDoc; its errors are swallowed
clearUnread(chatId, myUid) ==
  /\ NoneDone
  /\ IF chats[chatId].exists
     THEN /\ chats' = [chats EXCEPT ![chatId] =
               [@ EXCEPT !.unreadCount = Cleared(@, myUid)]]
          /\ sent' = [sent EXCEPT ![chatId] = Append(@, ClearBy(myUid))]
     ELSE UNCHANGED <<chats, sent>>
  /\ UNCHANGED <<users, usernames, now, seq, calls, holds, changes, fresh, pre,
                 rows, messages,
                 auth, page>>

(* -------------------- db-service.js (Supabase variant) ----------------- *)

\* a row of table chats
ChatRow(myId, otherId) ==
  [exists |-> TRUE, participants |-> {myId, otherId},
   last_message_text |-> "", last_message_at |-> Unset, last_message_from |-> "null",
   unread_count |-> [u \in {myId, otherId} |-> 0]]

\* a row of table messages
MessageRow(cid, fromId, toId, text, t) ==
  [chat_id |-> cid, from_user |-> fromId, to_user |-> toId, text |-> text,
   type |-> "text", created_at |-> Stamp(t)]

\* sendMessage(cid, fromId, toId, text) is called; a blank text returns null
StartSendMessageRow(c, cid, fromId, toId, text) ==
  /\ NoneDone
  /\ LowestFree(c)
  /\ LET call == [IdleCall EXCEPT !.fn = "sendMessage (supabase)", !.uid = fromId,
                                  !.to = toId, !.chatId = cid, !.text = Trim(text),
                                  !.ts = now]
     IN  calls' = [calls EXCEPT ![c] =
           IF Trim(text) = ""
           THEN [call EXCEPT !.pc = "done", !.result = Ok]
           ELSE [call EXCEPT !.pc = "insert"]]
  /\ UNCHANGED <<users, usernames, now, seq, holds, changes, fresh, pre,
                 rows, chats, messages, sent,
                 auth, page>>

\* supabase.from('messages').insert({...})
InsertMessage(c) ==
  /\ NoneDone
  /\ calls[c].pc = "insert"
  /\ messages' = [messages EXCEPT ![calls[c].chatId] =
       Append(@, MessageRow(calls[c].chatId, calls[c].uid, calls[c].to,
                            calls[c].text, calls[c].ts))]
  /\ calls' = [calls EXCEPT ![c] = [@ EXCEPT !.pc = "select"]]
  /\ UNCHANGED <<users, usernames, now, seq, holds, changes, fresh, pre,
                 rows, chats, sent,
                 auth, page>>

\* the insert returns an error: throw new Error('Failed to send: ...')
InsertMessageFails(c) ==
  /\ NoneDone
  /\ calls[c].pc = "insert"
  /\ calls' = [calls EXCEPT ![c] = [@ EXCEPT !.pc = "done", !.result = Unavailable]]
  /\ UNCHANGED <<users, usernames, now, seq, holds, changes, fresh, pre,
                 rows, chats, messages, sent,
                 auth, page>>

\* supabase.from('chats').select('unread_count').eq('id', cid).maybeSingle(),
\* in sendMessage and in markChatAsRead, which returns when there is no row
SelectUnread(c) ==
  /\ NoneDone
  /\ calls[c].pc = "select"
  /\ calls' = [calls EXCEPT ![c] =
       IF calls[c].fn = "markChatAsRead" /\ ~chats[calls[c].chatId].exists
       THEN [@ EXCEPT !.pc = "done", !.result = Ok]
       ELSE [@ EXCEPT !.chatSnap = chats[calls[c].chatId], !.pc = "update"]]
  /\ UNCHANGED <<users, usernames, now, seq, holds, changes, fresh, pre,
                 rows, chats, messages, sent,
                 auth, page>>

\* chat?.unread_count || {}
UnreadOf(snap) == IF snap.exists THEN snap.unread_count ELSE <<>>

\* { ...unread, [id]: n }
WithCount(unread, id, n) ==
  [u \in DOMAIN unread \cup {id} |-> IF u = id THEN n ELSE unread[u]]

\* { ...(chat?.unread_count || {}), [toId]: (chat?.unread_count?.[toId] || 0) + 1 }
UnreadAfterSend(snap, toId) ==
  LET unread == UnreadOf(snap)
  IN  WithCount(unread, toId, (IF toId \in DOMAIN unread THEN unread[toId] ELSE 0) + 1)

\* the update that ends sendMessage: the preview and the whole unread_count
\* object computed from the row selected before; no row, nothing updated
UpdateChatRow(c) ==
  /\ NoneDone
  /\ calls[c].fn = "sendMessage (supabase)"
  /\ calls[c].pc = "update"
  /\ LET id == calls[c].chatId
     IN  IF chats[id].exists
         THEN /\ chats' = [chats EXCEPT ![id] =
                   [@ EXCEPT !.last_message_text = calls[c].text,
                             !.last_message_at = Stamp(calls[c].ts),
                             !.last_message_from = calls[c].uid,
                             !.unread_count = UnreadAfterSend(calls[c].chatSnap, calls[c].to)]]
              /\ sent' = [sent EXCEPT ![id] = Append(@, SendTo(calls[c].to))]
         ELSE UNCHANGED <<chats, sent>>
  /\ calls' = [calls EXCEPT ![c] = [@ EXCEPT !.pc = "done", !.result = Ok]]
  /\ UNCHANGED <<users, usernames, now, seq, holds, changes, fresh, pre,
                 rows, messages,
                 auth, page>>

\* markChatAsRead(cid, userId) is called
StartMarkChatAsRead(c, cid, userId) ==
  /\ NoneDone
  /\ LowestFree(c)
  /\ calls' = [calls EXCEPT ![c] =
       [IdleCall EXCEPT !.fn = "markChatAsRead", !.uid = userId, !.chatId = cid,
                        !.pc = "select"]]
  /\ UNCHANGED <<users, usernames, now, seq, holds, changes, fresh, pre,
                 rows, chats, messages, sent,
                 auth, page>>

\* update({ unread_count: { ...data.unread_count, [userId]: 0 } })
UpdateRead(c) ==
  /\ NoneDone
  /\ calls[c].fn = "markChatAsRead"
  /\ calls[c].pc = "update"
  /\ LET id == calls[c].chatId
     IN  IF chats[id].exists
         THEN /\ chats' = [chats EXCEPT ![id] =
                   [@ EXCEPT !.unread_count =
                      WithCount(UnreadOf(calls[c].chatSnap), calls[c].uid, 0)]]
              /\ sent' = [sent EXCEPT ![id] = Append(@, ClearBy(calls[c].uid))]
         ELSE UNCHANGED <<chats, sent>>
  /\ calls' = [calls EXCEPT ![c] = [@ EXCEPT !.pc = "done", !.result = Ok]]
  /\ UNCHANGED <<users, usernames, now, seq, holds, changes, fresh, pre,
                 rows, messages,
                 auth, page>>

(* ------------- supabase-config.js subscribeToAuth, onAuthChange -------- *)

\* session?.user ?? null when nobody is signed in
NoUser == "null"

\* the session of the Supabase client, and the variables of onAuthChange:
\* lastUserId (v2), initialized and currentId (v3)
AuthState(session) ==
  [session |-> session,
   \* the promise of getSession() has resolved
   seeded |-> FALSE,
   lastUserId |-> NoUser,
   initialized |-> FALSE,
   currentId |-> NoUser,
   \* history: the callbacks made, in order, and the number of session events
   delivered |-> <<>>,
   events |-> 0]

\* history: callback(user), and whether the user's row existed when it was made
Callback(user) == [user |-> user, row |-> user \in DOMAIN rows]

\* the row _upsertUserProfile writes: no username yet
WithProfileRow(id) ==
  [u \in DOMAIN rows \cup {id} |-> IF u \in DOMAIN rows THEN rows[u] ELSE Row(NoName, Unset)]

\* a handler of onAuthChange at its await of getUserProfile
Handler(fn, user) == [IdleCall EXCEPT !.fn = fn, !.uid = user, !.pc = "getUserProfile"]

\* v2: the callback onAuthChange gives subscribeToAuth runs for user, up to its
\* first await; a is the state it finds
HandleV2(c, user, a) ==
  /\ LowestFree(c)
  /\ IF user # NoUser /\ user # a.lastUserId
     THEN /\ auth' = [a EXCEPT !.lastUserId = user]
          /\ calls' = [calls EXCEPT ![c] = Handler("onAuthChange (v2)", user)]
     ELSE /\ auth' = [a EXCEPT !.lastUserId = IF user = NoUser THEN NoUser ELSE @,
                               !.delivered = Append(@, Callback(user))]
          /\ UNCHANGED calls
  /\ UNCHANGED <<users, usernames, now, seq, holds, changes, fresh, pre,
                 rows, chats, messages, sent, page>>

\* supabase.auth.getSession().then(...): the callback runs with the session
SeedV2(c) ==
  /\ ~auth.seeded
  /\ HandleV2(c, auth.session, [auth EXCEPT !.seeded = TRUE])

\* onAuthStateChange fires with the session of a sign-in, a sign-out or a
\* refreshed token
AuthEventV2(c, user) ==
  HandleV2(c, user, [auth EXCEPT !.session = user, !.events = @ + 1])

\* existing = await getUserProfile(user.id): callback(user) when the row exists
GetUserProfileV2(c) ==
  /\ calls[c].fn = "onAuthChange (v2)"
  /\ calls[c].pc = "getUserProfile"
  /\ IF calls[c].uid \in DOMAIN rows
     THEN /\ auth' = [auth EXCEPT !.delivered = Append(@, Callback(calls[c].uid))]
          /\ calls' = [calls EXCEPT ![c] = IdleCall]
     ELSE /\ calls' = [calls EXCEPT ![c] = [@ EXCEPT !.pc = "upsert"]]
          /\ UNCHANGED auth
  /\ UNCHANGED <<users, usernames, now, seq, holds, changes, fresh, pre,
                 rows, chats, messages, sent, page>>

\* await _upsertUserProfile(...): the row is written, then callback(user)
UpsertProfileV2(c) ==
  /\ calls[c].fn = "onAuthChange (v2)"
  /\ calls[c].pc = "upsert"
  /\ rows' = WithProfileRow(calls[c].uid)
  /\ auth' = [auth EXCEPT !.delivered =
                Append(@, [user |-> calls[c].uid, row |-> TRUE])]
  /\ calls' = [calls EXCEPT ![c] = IdleCall]
  /\ UNCHANGED <<users, usernames, now, seq, holds, changes, fresh, pre,
                 chats, messages, sent, page>>

\* the upsert returns an error: it is logged, then callback(user)
UpsertProfileV2Fails(c) ==
  /\ calls[c].fn = "onAuthChange (v2)"
  /\ calls[c].pc = "upsert"
  /\ auth' = [auth EXCEPT !.delivered = Append(@, Callback(calls[c].uid))]
  /\ calls' = [calls EXCEPT ![c] = IdleCall]
  /\ UNCHANGED <<users, usernames, now, seq, holds, changes, fresh, pre,
                 rows, chats, messages, sent, page>>

\* v3: process(session) up to its first await; a is the state it finds
Process(c, user, a) ==
  /\ LowestFree(c)
  /\ IF user = NoUser
     THEN /\ auth' = [a EXCEPT !.currentId = NoUser,
                               !.delivered = Append(@, Callback(NoUser))]
          /\ UNCHANGED calls
     ELSE IF user = a.currentId
     THEN /\ auth' = a
          /\ UNCHANGED calls
     ELSE /\ auth' = [a EXCEPT !.currentId = user]
          /\ calls' = [calls EXCEPT ![c] = Handler("onAuthChange (v3)", user)]
  /\ UNCHANGED <<users, usernames, now, seq, holds, changes, fresh, pre,
                 rows, chats, messages, sent, page>>

\* getSession().then(...): initialized = true; process(session)
SeedV3(c) ==
  /\ ~auth.seeded
  /\ Process(c, auth.session, [auth EXCEPT !.seeded = TRUE, !.initialized = TRUE])

\* onAuthStateChange fires: if (!initialized) return; process(session)
AuthEventV3(c, user) ==
  IF auth.initialized
  THEN Process(c, user, [auth EXCEPT !.session = user, !.events = @ + 1])
  ELSE /\ LowestFree(c)
       /\ auth' = [auth EXCEPT !.session = user, !.events = @ + 1]
       /\ UNCHANGED <<users, usernames, now, seq, calls, holds, changes, fresh, pre,
                      rows, chats, messages, sent, page>>

\* profile = await getUserProfile(authUser.id): callback(profile) when the row exists
GetUserProfileV3(c) ==
  /\ calls[c].fn = "onAuthChange (v3)"
  /\ calls[c].pc = "getUserProfile"
  /\ IF calls[c].uid \in DOMAIN rows
     THEN /\ auth' = [auth EXCEPT !.delivered = Append(@, Callback(calls[c].uid))]
          /\ calls' = [calls EXCEPT ![c] = IdleCall]
     ELSE /\ calls' = [calls EXCEPT ![c] = [@ EXCEPT !.pc = "upsert"]]
          /\ UNCHANGED auth
  /\ UNCHANGED <<users, usernames, now, seq, holds, changes, fresh, pre,
                 rows, chats, messages, sent, page>>

\* await _upsert(...): the row is written
UpsertProfileV3(c) ==
  /\ calls[c].fn = "onAuthChange (v3)"
  /\ calls[c].pc = "upsert"
  /\ rows' = WithProfileRow(calls[c].uid)
  /\ calls' = [calls EXCEPT ![c] = [@ EXCEPT !.pc = "getUserProfile again"]]
  /\ UNCHANGED <<users, usernames, now, seq, holds, changes, fresh, pre,
                 chats, messages, sent, auth, page>>

\* the upsert returns an error, which is logged
UpsertProfileV3Fails(c) ==
  /\ calls[c].fn = "onAuthChange (v3)"
  /\ calls[c].pc = "upsert"
  /\ calls' = [calls EXCEPT ![c] = [@ EXCEPT !.pc = "getUserProfile again"]]
  /\ UNCHANGED <<users, usernames, now, seq, holds, changes, fresh, pre,
                 rows, chats, messages, sent, auth, page>>

\* profile = await getUserProfile(authUser.id) after the upsert; without a
\* row the profile is made up from the auth user; callback(profile)
GetUserProfileAgain(c) ==
  /\ calls[c].fn = "onAuthChange (v3)"
  /\ calls[c].pc = "getUserProfile again"
  /\ auth' = [auth EXCEPT !.delivered = Append(@, Callback(calls[c].uid))]
  /\ calls' = [calls EXCEPT ![c] = IdleCall]
  /\ UNCHANGED <<users, usernames, now, seq, holds, changes, fresh, pre,
                 rows, chats, messages, sent, page>>

(* --------------------------- app.js: chat page -------------------------- *)

\* the chats of the list
PageChats == {"chat A", "chat B"}
\* currentChatId = null, unsubMessages = null
NoChat == "null"
NoSub == 0

\* the page: currentChatId, unsubMessages (the subscription it unsubscribes),
\* the messages subscriptions that are active, the number made so far, and
\* the chats markChatAsRead was called for
PageState ==
  [currentChatId |-> NoChat, unsubMessages |-> NoSub, active |-> {}, made |-> 0,
   marked |-> {}]

\* a subscription made by subscribeToMessages(chatId, ...)
Sub(n, chatId) == [id |-> n, chatId |-> chatId]

\* unsubMessages?.(): the channel of that subscription is removed
Unsubscribed(p) == {s \in p.active : s.id # p.unsubMessages}

\* selectChat(chatId, otherUserId) up to its await of getUserById
selectChat(c, chatId) ==
  /\ LowestFree(c)
  /\ page' = [page EXCEPT !.active = Unsubscribed(page), !.currentChatId = chatId]
  /\ calls' = [calls EXCEPT ![c] =
       [IdleCall EXCEPT !.fn = "selectChat", !.chatId = chatId, !.pc = "getUserById"]]
  /\ UNCHANGED <<users, usernames, now, seq, holds, changes, fresh, pre,
                 rows, chats, messages, sent, auth>>

\* getUserById resolves: markChatAsRead(chatId, ...) is called and
\* unsubMessages = subscribeToMessages(chatId, ...)
SelectChatResumes(c) ==
  /\ calls[c].fn = "selectChat"
  /\ calls[c].pc = "getUserById"
  /\ page' = [page EXCEPT !.marked = @ \cup {calls[c].chatId},
                          !.made = @ + 1,
                          !.active = @ \cup {Sub(page.made + 1, calls[c].chatId)},
                          !.unsubMessages = page.made + 1]
  /\ calls' = [calls EXCEPT ![c] = IdleCall]
  /\ UNCHANGED <<users, usernames, now, seq, holds, changes, fresh, pre,
                 rows, chats, messages, sent, auth>>

\* handleBack()
handleBack ==
  /\ page' = [page EXCEPT !.active = Unsubscribed(page), !.unsubMessages = NoSub,
                          !.currentChatId = NoChat]
  /\ UNCHANGED <<users, usernames, now, seq, calls, holds, changes, fresh, pre,
                 rows, chats, messages, sent, auth>>

(* --------------------------- specification ----------------------------- *)

\* the names generateUsername gave the two accounts at signup
GeneratedAtSignup(uid) == IF uid = "u1" THEN "alice" ELSE "bob"

\* no call has been made yet
NoStore == <<>>
\* a collection or table the flows of a specification never touch
Empty == <<>>

\* the change flows start where signup has written both user documents
\* (auth.js line 58) and no username is reserved yet
Init ==
  /\ users = [u \in Uids |-> UserDoc(GeneratedAtSignup(u), Unset, 0)]
  /\ usernames = [h \in AllHandles |-> NoDoc]
  /\ now = 0
  /\ seq = 0
  /\ calls = [c \in Calls |-> IdleCall]
  /\ holds = {}
  /\ changes = [u \in Uids |-> <<>>]
  /\ fresh = {}
  /\ pre = NoStore
  /\ rows = Empty
  /\ chats = Empty
  /\ messages = Empty
  /\ sent = Empty
  /\ auth = Empty
  /\ page = Empty

\* calls of both functions by both accounts, MaxCalls of them at a time
Next ==
  \/ \E c \in Calls, uid \in Uids, new \in Handles, old \in Handles \cup {NoName} :
       seq < MaxCommits /\ StartReserveUsername(c, uid, new, old) /\ UNCHANGED pre
  \/ \E c \in Calls, uid \in Uids, h \in Handles :
       seq < MaxCommits /\ StartReserveInitialUsername(c, uid, h) /\ UNCHANGED pre
  \/ \E c \in Calls : TxGetNew(c)
  \/ \E c \in Calls : TxGetUser(c)
  \/ \E c \in Calls : TxRelease(c)
  \/ \E c \in Calls : TxReserve(c)
  \/ \E c \in Calls : TxUpdateUser(c)
  \/ \E c \in Calls : TxCommit(c)
  \/ \E c \in Calls : TxFail(c)
  \/ \E c \in Calls : Return(c)
  \/ Tick

Spec == Init /\ [][Next]_vars

\* one call at a time: the same flows with nothing else in flight, so that the
\* store when the call was made can be compared with the store it leaves
InitSeq ==
  /\ users = [u \in Uids |-> UserDoc(GeneratedAtSignup(u), Unset, 0)]
  /\ usernames = [h \in AllHandles |-> NoDoc]
  /\ now = 0
  /\ seq = 0
  /\ calls = [c \in {1} |-> IdleCall]
  /\ holds = {}
  /\ changes = [u \in Uids |-> <<>>]
  /\ fresh = {}
  /\ pre = <<users, usernames>>
  /\ rows = Empty
  /\ chats = Empty
  /\ messages = Empty
  /\ sent = Empty
  /\ auth = Empty
  /\ page = Empty

NextSeq ==
  \/ \E uid \in Uids, new \in Handles, old \in Handles \cup {NoName} :
       /\ seq < MaxSeqCommits
       /\ StartReserveUsername(1, uid, new, old)
       /\ pre' = <<users, usernames>>
  \/ \E uid \in Uids, h \in Handles :
       /\ seq < MaxSeqCommits
       /\ StartReserveInitialUsername(1, uid, h)
       /\ pre' = <<users, usernames>>
  \/ TxGetNew(1)
  \/ TxGetUser(1)
  \/ TxRelease(1)
  \/ TxReserve(1)
  \/ TxUpdateUser(1)
  \/ TxCommit(1)
  \/ TxFail(1)
  \/ Return(1)
  \/ Tick

SpecSeq == InitSeq /\ [][NextSeq]_vars

\* signup: no account exists yet; every account comes from upsertUser
InitSignup ==
  /\ users = [u \in Uids |-> NoDoc]
  /\ usernames = [h \in AllHandles |-> NoDoc]
  /\ now = 0
  /\ seq = 0
  /\ calls = [c \in Calls |-> IdleCall]
  /\ holds = {}
  /\ changes = [u \in Uids |-> <<>>]
  /\ fresh = {}
  /\ pre = NoStore
  /\ rows = Empty
  /\ chats = Empty
  /\ messages = Empty
  /\ sent = Empty
  /\ auth = Empty
  /\ page = Empty

NextSignup ==
  \/ \E c \in Calls, uid \in Uids :
       seq < MaxCommits /\ StartUpsertUser(c, uid) /\ UNCHANGED pre
  \/ \E c \in Calls, h \in Handles : UpsertGetDoc(c, h)
  \/ \E c \in Calls : UpsertSetDoc(c)
  \/ \E c \in Calls, h \in Handles : UpsertSettled(c, h)
  \/ \E c \in Calls : UpsertMerge(c)
  \/ \E c \in Calls : TxGetNew(c)
  \/ \E c \in Calls : TxReserve(c)
  \/ \E c \in Calls : TxUpdateUser(c)
  \/ \E c \in Calls : TxCommit(c)
  \/ \E c \in Calls : TxFail(c)
  \/ \E c \in Calls : Return(c)



SpecSignup == InitSignup /\ [][NextSignup]_vars

\* signup where every call in flight keeps being run: the awaited requests
\* of a call settle (with a result or an error)
SpecSignupFair == SpecSignup /\ WF_vars(NextSignup)

\* the race for one free handle: NumRacers accounts, whose signups generated the
\* same username, are each inside reserveInitialUsername for it
RacerNames == <<"u1", "u2", "u3", "u4", "u5">>
Racers == {RacerNames[i] : i \in 1..NumRacers}

InitRace ==
  /\ \E h \in Handles :
       /\ users = [u \in Racers |-> UserDoc(h, Unset, 0)]
       /\ calls = [i \in 1..NumRacers |->
                     TxCall("reserveInitialUsername", RacerNames[i], h, NoName)]
  /\ usernames = [h \in AllHandles |-> NoDoc]
  /\ now = 0
  /\ seq = 0
  /\ holds = {}
  /\ changes = [u \in Racers |-> <<>>]
  /\ fresh = {}
  /\ pre = NoStore
  /\ rows = Empty
  /\ chats = Empty
  /\ messages = Empty
  /\ sent = Empty
  /\ auth = Empty
  /\ page = Empty

\* the caller keeps the result of its call
Collect(c) ==
  /\ calls[c].pc = "done"
  /\ calls' = [calls EXCEPT ![c] = [@ EXCEPT !.pc = "returned"]]
  /\ UNCHANGED <<users, usernames, now, seq, holds, changes, fresh, pre,
               rows, chats, messages, sent,
                 auth, page>>

NextRace ==
  \/ \E c \in 1..NumRacers : TxGetNew(c)
  \/ \E c \in 1..NumRacers : TxReserve(c)
  \/ \E c \in 1..NumRacers : TxUpdateUser(c)
  \/ \E c \in 1..NumRacers : TxCommit(c)
  \/ \E c \in 1..NumRacers : Collect(c)

SpecRace == InitRace /\ [][NextRace]_vars

\* the cooldown check at its boundary: the account changed its username at t,
\* the clock shows t + e, and a reserveUsername call is about to read the user
\* document
Elapsed ==
  UNION {{d * DAY - SECOND, d * DAY - 1, d * DAY, d * DAY + 1, d * DAY + SECOND} :
         d \in 1..MaxElapsedDays} \cup {0, 1, SECOND}

InitCooldown ==
  /\ \E t \in {0, 1, SECOND, DAY} :
       /\ users = [u \in Uids |-> UserDoc(GeneratedAtSignup(u), Stamp(t), 1)]
       /\ \E e \in Elapsed : now = t + e
  /\ usernames = [h \in AllHandles |-> NoDoc]
  /\ seq = 1
  /\ \E uid \in Uids, new \in Handles :
       calls = [c \in {1} |->
                  [TxCall("reserveUsername", uid, new, GeneratedAtSignup(uid))
                     EXCEPT !.pc = "getUser"]]
  /\ holds = {}
  /\ changes = [u \in Uids |-> <<>>]
  /\ fresh = {}
  /\ pre = NoStore
  /\ rows = Empty
  /\ chats = Empty
  /\ messages = Empty
  /\ sent = Empty
  /\ auth = Empty
  /\ page = Empty

NextCooldown == TxGetUser(1)

SpecCooldown == InitCooldown /\ [][NextCooldown]_vars

\* everything that writes users/{uid}: signup and sign-in, the username
\* functions and the profile functions, one call of a flow at a time; the
\* second account has not signed up yet
ProfileEdits ==
  {[displayName |-> n] : n \in DisplayNames} \cup {[photoURL |-> p] : p \in PhotoURLs}

InitProfile ==
  /\ users = [u \in Uids |->
                IF u = "u1" THEN UserDoc(GeneratedAtSignup(u), Unset, 0) ELSE NoDoc]
  /\ usernames = [h \in AllHandles |-> NoDoc]
  /\ now = 0
  /\ seq = 0
  /\ calls = [c \in {1} |-> IdleCall]
  /\ holds = {}
  /\ changes = [u \in Uids |-> <<>>]
  /\ fresh = {}
  /\ pre = NoStore
  /\ rows = Empty
  /\ chats = Empty
  /\ messages = Empty
  /\ sent = Empty
  /\ auth = Empty
  /\ page = Empty

NextProfile ==
  \/ \E uid \in Uids, new \in Handles, old \in Handles \cup {NoName} :
       seq < MaxProfileCommits /\ StartReserveUsername(1, uid, new, old) /\ UNCHANGED pre
  \/ \E uid \in Uids, h \in Handles :
       seq < MaxProfileCommits /\ StartReserveInitialUsername(1, uid, h) /\ UNCHANGED pre
  \/ \E uid \in Uids :
       seq < MaxProfileCommits /\ StartUpsertUser(1, uid) /\ UNCHANGED pre
  \/ \E h \in Handles : UpsertGetDoc(1, h)
  \/ UpsertSetDoc(1)
  \/ \E h \in Handles : UpsertSettled(1, h)
  \/ UpsertMerge(1)
  \/ TxGetNew(1)
  \/ TxGetUser(1)
  \/ TxRelease(1)
  \/ TxReserve(1)
  \/ TxUpdateUser(1)
  \/ TxCommit(1)
  \/ Return(1)
  \/ Tick
  \/ \E uid \in Uids, fields \in ProfileEdits :
       seq < MaxProfileCommits /\ updateUserProfile(uid, fields)
  \/ \E uid \in Uids, p \in PhotoURLs :
       seq < MaxProfileCommits /\ updateProfilePhoto(uid, p)
  \/ \E uid \in Uids : seq < MaxProfileCommits /\ touchLastSeen(uid)
  \/ \E uid, target \in Uids :
       seq < MaxProfileCommits /\ uid # target /\ blockUser(uid, target)
  \/ \E uid, target \in Uids :
       seq < MaxProfileCommits /\ uid # target /\ unblockUser(uid, target)

SpecProfile == InitProfile /\ [][NextProfile]_vars

\* the simplified signup: two new accounts sign up, from up to MaxCalls tabs
\* at a time, and sign in again
InitSignupV2 ==
  /\ users = [u \in Uids |-> NoDoc]
  /\ usernames = [h \in Handles |-> NoDoc]
  /\ now = 0
  /\ seq = 0
  /\ calls = [c \in Calls |-> IdleCall]
  /\ holds = {}
  /\ changes = [u \in Uids |-> <<>>]
  /\ fresh = {}
  /\ pre = NoStore
  /\ rows = Empty
  /\ chats = Empty
  /\ messages = Empty
  /\ sent = Empty
  /\ auth = Empty
  /\ page = Empty

NextSignupV2 ==
  \/ \E c \in Calls, uid \in Uids :
       seq < MaxSignupWrites /\ StartUpsertUserV2(c, uid)
  \/ \E c \in Calls, h \in Handles : UpsertV2GetDoc(c, h)
  \/ \E c \in Calls : UpsertV2GetDocFails(c)
  \/ \E c \in Calls : UpsertV2Touch(c)
  \/ \E c \in Calls : UpsertV2SetUser(c)
  \/ \E c \in Calls : UpsertV2SetUsername(c)
  \/ \E c \in Calls : UpsertV2SetUsernameFails(c)
  \/ \E c \in Calls : Return(c)
  \/ Tick

SpecSignupV2 == InitSignupV2 /\ [][NextSignupV2]_vars

\* the Supabase variant: both accounts have a row, neither has a username
\* yet, and updateUsername is called from up to MaxCalls tabs at a time
InitSupabase ==
  /\ users = Empty
  /\ usernames = Empty
  /\ now = 0
  /\ seq = 0
  /\ calls = [c \in Calls |-> IdleCall]
  /\ holds = {}
  /\ changes = [u \in Uids |-> <<>>]
  /\ fresh = {}
  /\ pre = NoStore
  /\ rows = [u \in Uids |-> Row(NoName, Unset)]
  /\ chats = Empty
  /\ messages = Empty
  /\ sent = Empty
  /\ auth = Empty
  /\ page = Empty

NextSupabase ==
  \/ \E c \in Calls, uid \in Uids, raw \in ApiNames :
       seq < MaxRowUpdates /\ StartUpdateUsername(c, uid, raw)
  \/ \E c \in Calls : SelectChangedAt(c)
  \/ \E c \in Calls : SelectExisting(c)
  \/ \E c \in Calls : UpdateRow(c)
  \/ \E c \in Calls : UpdateRowError(c)
  \/ \E c \in Calls : Return(c)
  \/ Tick

SpecSupabase == InitSupabase /\ [][NextSupabase]_vars

\* the username functions as a caller sees them: reservations and changes
\* in slot 1, one at a time, with names of either case, and reads whose last
\* result the caller keeps in slot ReadSlot
ReadSlot == 2

InitApi ==
  /\ users = [u \in Uids |-> UserDoc(GeneratedAtSignup(u), Unset, 0)]
  /\ usernames = [h \in ApiNames |-> NoDoc]
  /\ now = 0
  /\ seq = 0
  /\ calls = [c \in {1, ReadSlot} |-> IdleCall]
  /\ holds = {}
  /\ changes = [u \in Uids |-> <<>>]
  /\ fresh = {}
  /\ pre = <<users, usernames>>
  /\ rows = Empty
  /\ chats = Empty
  /\ messages = Empty
  /\ sent = Empty
  /\ auth = Empty
  /\ page = Empty

NextApi ==
  \/ \E uid \in Uids, new \in ApiNames, old \in ApiNames \cup {NoName} :
       /\ seq < MaxApiCommits
       /\ StartReserveUsername(1, uid, new, old)
       /\ pre' = <<users, usernames>>
  \/ \E uid \in Uids, h \in ApiNames :
       /\ seq < MaxApiCommits
       /\ StartReserveInitialUsername(1, uid, h)
       /\ pre' = <<users, usernames>>
  \/ TxGetNew(1)
  \/ TxGetUser(1)
  \/ TxRelease(1)
  \/ TxReserve(1)
  \/ TxUpdateUser(1)
  \/ TxCommit(1)
  \/ Return(1)
  \/ \E h \in ApiNames, uid \in Uids : isUsernameAvailable(ReadSlot, h, uid)
  \/ \E h \in ApiNames : lookupUidByUsername(ReadSlot, h)

SpecApi == InitApi /\ [][NextApi]_vars

\* a chat: the two accounts have opened their chat (getOrCreateChat), they
\* send from up to MaxCalls tabs at a time, open the chat (clearUnread) and
\* block and unblock each other
InitChat ==
  /\ users = [u \in Uids |-> UserDoc(GeneratedAtSignup(u), Unset, 0)]
  /\ usernames = Empty
  /\ now = 0
  /\ seq = 0
  /\ calls = [c \in Calls |-> IdleCall]
  /\ holds = {}
  /\ changes = [u \in Uids |-> <<>>]
  /\ fresh = {}
  /\ pre = NoStore
  /\ rows = Empty
  /\ chats = [id \in ChatIds |-> NewChat(id[1], id[2], 0)]
  /\ messages = [id \in ChatIds |-> <<>>]
  /\ sent = [id \in ChatIds |-> <<>>]
  /\ auth = Empty
  /\ page = Empty

\* the sendMessage calls made so far that got past the blank-text check
Sends(id) ==
  Len(messages[id]) + Cardinality({c \in DOMAIN calls : calls[c].pc = "addDoc"})

NextChat ==
  \/ \E c \in Calls, from \in Uids, to \in Uids, text \in Texts :
       /\ from # to
       /\ Sends(getChatId(from, to)) < MaxMessages
       /\ StartSendMessage(c, from, to, text)
  \/ \E c \in Calls : AddMessage(c)
  \/ \E c \in Calls : updateChatMeta(c)
  \/ \E c \in Calls : SendFails(c)
  \/ \E c \in Calls : Return(c)
  \/ \E id \in ChatIds, uid \in Uids :
       Len(sent[id]) < MaxChatEvents /\ clearUnread(id, uid)
  \/ \E uid \in Uids, target \in Uids :
       NoneDone /\ seq < MaxBlockWrites /\ uid # target /\ blockUser(uid, target)
  \/ \E uid \in Uids, target \in Uids :
       NoneDone /\ seq < MaxBlockWrites /\ uid # target /\ unblockUser(uid, target)

SpecChat == InitChat /\ [][NextChat]_vars

\* a chat of the Supabase variant: the row of the chat exists; the two
\* participants send and mark the chat as read from up to MaxCalls tabs at a time
InitChatRows ==
  /\ users = Empty
  /\ usernames = Empty
  /\ now = 0
  /\ seq = 0
  /\ calls = [c \in Calls |-> IdleCall]
  /\ holds = {}
  /\ changes = [u \in Uids |-> <<>>]
  /\ fresh = {}
  /\ pre = NoStore
  /\ rows = [u \in Uids |-> Row(NoName, Unset)]
  /\ chats = [id \in ChatIds |-> ChatRow(id[1], id[2])]
  /\ messages = [id \in ChatIds |-> <<>>]
  /\ sent = [id \in ChatIds |-> <<>>]
  /\ auth = Empty
  /\ page = Empty

\* the sendMessage calls made so far that got past the blank-text check
RowSends(id) ==
  Len(messages[id]) + Cardinality({c \in DOMAIN calls : calls[c].pc = "insert"})

NextChatRows ==
  \/ \E c \in Calls, fromId \in Uids, toId \in Uids, text \in Texts :
       /\ fromId # toId
       /\ RowSends(getChatId(fromId, toId)) < MaxRowMessages
       /\ StartSendMessageRow(c, getChatId(fromId, toId), fromId, toId, text)
  \/ \E c \in Calls : InsertMessage(c)
  \/ \E c \in Calls : InsertMessageFails(c)
  \/ \E c \in Calls : SelectUnread(c)
  \/ \E c \in Calls : UpdateChatRow(c)
  \/ \E c \in Calls, id \in ChatIds, userId \in Uids :
       Len(sent[id]) < MaxRowMessages /\ StartMarkChatAsRead(c, id, userId)
  \/ \E c \in Calls : UpdateRead(c)
  \/ \E c \in Calls : Return(c)
  \/ Tick

SpecChatRows == InitChatRows /\ [][NextChatRows]_vars

\* a page that calls onAuthChange: somebody or nobody is signed in, some
\* accounts have their row and some (signed up with Google) do not yet
InitAuth ==
  /\ users = Empty
  /\ usernames = Empty
  /\ now = 0
  /\ seq = 0
  /\ calls = [c \in Calls |-> IdleCall]
  /\ holds = {}
  /\ changes = [u \in Uids |-> <<>>]
  /\ fresh = {}
  /\ pre = NoStore
  /\ \E existing \in SUBSET Uids : rows = [u \in existing |-> Row(NoName, Unset)]
  /\ chats = Empty
  /\ messages = Empty
  /\ sent = Empty
  /\ \E session \in Uids \cup {NoUser} : auth = AuthState(session)
  /\ page = Empty

NextAuthV2 ==
  \/ \E c \in Calls : SeedV2(c)
  \/ \E c \in Calls, user \in Uids \cup {NoUser} :
       auth.events < MaxAuthEvents /\ AuthEventV2(c, user)
  \/ \E c \in Calls : GetUserProfileV2(c)
  \/ \E c \in Calls : UpsertProfileV2(c)
  \/ \E c \in Calls : UpsertProfileV2Fails(c)

SpecAuthV2 == InitAuth /\ [][NextAuthV2]_vars

NextAuthV3 ==
  \/ \E c \in Calls : SeedV3(c)
  \/ \E c \in Calls, user \in Uids \cup {NoUser} :
       auth.events < MaxAuthEvents /\ AuthEventV3(c, user)
  \/ \E c \in Calls : GetUserProfileV3(c)
  \/ \E c \in Calls : UpsertProfileV3(c)
  \/ \E c \in Calls : UpsertProfileV3Fails(c)
  \/ \E c \in Calls : GetUserProfileAgain(c)

SpecAuthV3 == InitAuth /\ [][NextAuthV3]_vars

\* the chat page after sign-in: no chat is open; the user clicks chats of
\* the list and the back button, also while a click is still being handled
InitPage ==
  /\ users = Empty
  /\ usernames = Empty
  /\ now = 0
  /\ seq = 0
  /\ calls = [c \in Calls |-> IdleCall]
  /\ holds = {}
  /\ changes = [u \in Uids |-> <<>>]
  /\ fresh = {}
  /\ pre = NoStore
  /\ rows = Empty
  /\ chats = Empty
  /\ messages = Empty
  /\ sent = Empty
  /\ auth = Empty
  /\ page = PageState

\* the clicks so far
Selects == page.made + Cardinality({c \in DOMAIN calls : calls[c].fn = "selectChat"})

NextPage ==
  \/ \E c \in Calls, chatId \in PageChats :
       Selects < MaxSelects /\ selectChat(c, chatId)
  \/ \E c \in Calls : SelectChatResumes(c)
  \/ handleBack

SpecPage == InitPage /\ [][NextPage]_vars

\* opening a chat: no chat document exists yet; the two accounts open the
\* chat (getOrCreateChat), from up to MaxCalls tabs at a time, send and read
InitOpenChat ==
  /\ users = [u \in Uids |-> UserDoc(GeneratedAtSignup(u), Unset, 0)]
  /\ usernames = Empty
  /\ now = 0
  /\ seq = 0
  /\ calls = [c \in Calls |-> IdleCall]
  /\ holds = {}
  /\ changes = [u \in Uids |-> <<>>]
  /\ fresh = {}
  /\ pre = NoStore
  /\ rows = Empty
  /\ chats = [id \in ChatIds |-> NoDoc]
  /\ messages = [id \in ChatIds |-> <<>>]
  /\ sent = [id \in ChatIds |-> <<>>]
  /\ auth = Empty
  /\ page = Empty

NextOpenChat ==
  \/ \E c \in Calls, myUid \in Uids, otherUid \in Uids :
       myUid # otherUid /\ StartGetOrCreateChat(c, myUid, otherUid)
  \/ \E c \in Calls : GetChatDoc(c)
  \/ \E c \in Calls : SetChatDoc(c)
  \/ \E c \in Calls, from \in Uids, to \in Uids, text \in Texts :
       /\ from # to
       /\ Sends(getChatId(from, to)) < MaxOpenChatMessages
       /\ StartSendMessage(c, from, to, text)
  \/ \E c \in Calls : AddMessage(c)
  \/ \E c \in Calls : updateChatMeta(c)
  \/ \E c \in Calls : SendFails(c)
  \/ \E c \in Calls : Return(c)
  \/ \E id \in ChatIds, uid \in Uids :
       Len(sent[id]) < MaxOpenChatMessages /\ clearUnread(id, uid)
  \/ Tick

SpecOpenChat == InitOpenChat /\ [][NextOpenChat]_vars

(* ------------------------------- claims -------------------------------- *)

\* the accounts that hold handle h: each reserved it by a call that returned
\* success and has not released it by a successful reserveUsername of its own
Holders(h) == {u \in DOMAIN users : <<u, h>> \in holds}

\* C1: global uniqueness.  In every state reachable by reserveInitialUsername
\* and reserveUsername calls from any accounts, no handle is held by two
\* distinct accounts.
C1_GlobalUniqueness == \A h \in AllHandles : Cardinality(Holders(h)) <= 1

\* a call has settled: its promise resolved or rejected
Settled(c) == calls[c].pc \in {"done", "returned"}
Winners == {c \in DOMAIN calls : Settled(c) /\ calls[c].result = Ok}

\* C2: single winner under contention.  When the racers call
\* reserveInitialUsername concurrently for one handle nobody owns, at most one
\* call succeeds at any time, the handle stays reserved to the winner, and once
\* every call has settled exactly one has succeeded and every other has failed
\* with USERNAME_TAKEN.
C2_SingleWinner ==
  /\ Cardinality(Winners) <= 1
  /\ \A c \in Winners :
       /\ usernames[calls[c].newUsername] = UsernameDoc(calls[c].uid, 1)
       /\ users[calls[c].uid].username = calls[c].newUsername
  /\ (\A c \in DOMAIN calls : Settled(c)) =>
       /\ Cardinality(Winners) = 1
       /\ \A c \in DOMAIN calls \ Winners : calls[c].result = UsernameTaken

\* every racer has settled, and a loser got as far as its commit before the
\* conflict sent it back to read the winner's reservation
C2_Witness ==
  /\ \A c \in DOMAIN calls : Settled(c)
  /\ Cardinality(DOMAIN calls) >= 2
  /\ \E c \in DOMAIN calls : calls[c].result = UsernameTaken /\ calls[c].txAttempts = 2

\* call c takes a step
Steps(c) == calls'[c] # calls[c]

\* the step is the successful commit of call c
Commits(c) == calls[c].pc = "commit" /\ calls'[c].pc = "done" /\ calls'[c].result = Ok

\* call c is a reserveUsername(uid, new, old) that names an old username to release
ChangesHandle(c) ==
  /\ calls[c].fn = "reserveUsername"
  /\ calls[c].oldUsername \notin {NoName, calls[c].newUsername}

\* C3: a successful reserveUsername(uid, new, old) with old # new applies its
\* three effects as one step.  Every step of the call before its commit leaves
\* users and usernames as they are, and the commit step leaves usernames/old
\* deleted, usernames/new bound to uid, users/uid.username = new and
\* lastUsernameChange = now, different from its previous value.
C3_ChangeIsOneStep ==
  [][\A c \in DOMAIN calls :
       (ChangesHandle(c) /\ InTx(c) /\ Steps(c)) =>
         IF Commits(c)
         THEN /\ ~usernames'[calls[c].oldUsername].exists
              /\ usernames'[calls[c].newUsername] = UsernameDoc(calls[c].uid, seq')
              /\ users'[calls[c].uid].username = calls[c].newUsername
              /\ users'[calls[c].uid].lastUsernameChange = Stamp(now)
              /\ users'[calls[c].uid].lastUsernameChange #
                   users[calls[c].uid].lastUsernameChange
         ELSE users' = users /\ usernames' = usernames]_vars

\* a change from old to new has committed while another call was in flight:
\* old, which was reserved to the account, is released and new is bound
C3_Witness ==
  \E c \in DOMAIN calls :
    /\ ChangesHandle(c) /\ calls[c].pc = "done" /\ calls[c].result = Ok
    /\ calls[c].userSnap.username = calls[c].oldUsername
    /\ calls[c].deleted.exists
    /\ calls[c].deleted.uid = calls[c].uid
    /\ ~usernames[calls[c].oldUsername].exists
    /\ usernames[calls[c].newUsername].uid = calls[c].uid
    /\ \E d \in DOMAIN calls : d # c /\ InTx(d)

\* C4: if a storage failure or a crash occurs at any point inside
\* reserveUsername's transaction, the store is left in its pre-call state: with
\* nothing else in flight, users and usernames are what they were when the
\* call was made, both while the transaction is running (a crash stops it
\* there) and after it has failed.
C4_FailureLeavesPreCallState ==
  \A c \in DOMAIN calls :
    (/\ calls[c].fn = "reserveUsername"
     /\ InTx(c) \/ (calls[c].pc = "done" /\ calls[c].result = Unavailable)) =>
      <<users, usernames>> = pre

\* the failure hit between the delete of the old reservation and the write of
\* the new one: old is still reserved to the account, new is not reserved
C4_Witness ==
  \E c \in DOMAIN calls :
    /\ calls[c].fn = "reserveUsername"
    /\ calls[c].pc = "done" /\ calls[c].result = Unavailable
    /\ calls[c].writes = <<TxDelete(calls[c].oldUsername)>>
    /\ usernames[calls[c].oldUsername] = pre[2][calls[c].oldUsername]
    /\ usernames[calls[c].oldUsername].exists
    /\ usernames[calls[c].oldUsername].uid = calls[c].uid
    /\ ~usernames[calls[c].newUsername].exists

\* C5: a reservation usernames/{h} is deleted only by a reserveUsername call
\* made by the account that owns it.
C5_DeletedOnlyByOwner ==
  [][\A h \in AllHandles :
       (usernames[h].exists /\ ~usernames'[h].exists) =>
         \E c \in DOMAIN calls :
           /\ Commits(c)
           /\ calls[c].fn = "reserveUsername"
           /\ calls[c].uid = usernames[h].uid]_vars

\* C6: account / reservation consistency.  If users/{a}.username = h then
\* usernames/{h} exists and its uid is a.
C6_AccountMatchesReservation ==
  \A a \in DOMAIN users :
    users[a].exists =>
      /\ usernames[users[a].username].exists
      /\ usernames[users[a].username].uid = a

\* a transient outcome: the transaction did not run to a verdict
Transient(r) == r \in {Unavailable, Aborted, NotFound}

\* call c is a settled reserveUsername(u1, h2, h) that read the account right
\* after the account's reserveInitialUsername(u1, h) succeeded, the account
\* never having changed its username, and h2 was not reserved by anyone else
RightAfterInitial(c) ==
  /\ calls[c].fn = "reserveUsername"
  /\ calls[c].pc = "done"
  /\ calls[c].immediate
  /\ calls[c].userSnap.username = calls[c].oldUsername
  /\ calls[c].newUsername # calls[c].oldUsername
  /\ calls[c].newSnap.exists => calls[c].newSnap.uid = calls[c].uid
  /\ ~Transient(calls[c].result)

\* C7, as claimed: immediately after reserveInitialUsername(u1, h) succeeds
\* for a new account, reserveUsername(u1, h2, h) fails with COOLDOWN:7.
C7_CooldownAfterInitial ==
  \A c \in DOMAIN calls : RightAfterInitial(c) => calls[c].result = Cooldown(COOLDOWN_DAYS)

\* C7, amended: immediately after reserveInitialUsername(u1, h) succeeds for
\* a new account, reserveUsername(u1, h2, h) with h2 not reserved by another
\* account passes the cooldown check and succeeds: reserveInitialUsername
\* does not set lastUsernameChange.
C7_NoCooldownAfterInitial ==
  \A c \in DOMAIN calls :
    RightAfterInitial(c) =>
      /\ calls[c].result = Ok
      /\ calls[c].userSnap.lastUsernameChange = Unset
      /\ users[calls[c].uid].username = calls[c].newUsername

\* the change went through at the instant the initial reservation was made
C7_Witness ==
  \E c \in DOMAIN calls :
    /\ RightAfterInitial(c)
    /\ calls[c].result = Ok
    /\ <<calls[c].uid, calls[c].oldUsername>> \notin holds
    /\ changes[calls[c].uid] = <<now>>

\* the least n with n days >= ms: the days a remaining time rounds up to
DaysRoundedUp(ms) ==
  CHOOSE n \in 0..(MaxElapsedDays + COOLDOWN_DAYS) : (n - 1) * DAY < ms /\ ms <= n * DAY

\* C8: the cooldown check of reserveUsername for an account whose
\* lastUsernameChange is t.  At exactly t + 7 days it passes, at t + 6 days
\* 23:59:59 it fails with COOLDOWN:1, and in general for elapsed e < 7 days it
\* fails with COOLDOWN:ceil((7 days - e) / 1 day) and for e >= 7 days it passes.
C8_CooldownBoundary ==
  \A c \in DOMAIN calls :
    (calls[c].fn = "reserveUsername" /\ calls[c].pc \in {"release", "done"}) =>
      LET e == now - users[calls[c].uid].lastUsernameChange[1]
          week == COOLDOWN_DAYS * DAY
      IN  /\ e >= week => calls[c].pc = "release" /\ calls[c].result = Pending
          /\ e < week =>
               /\ calls[c].pc = "done"
               /\ calls[c].result = Cooldown(DaysRoundedUp(week - e))
          /\ e = week - SECOND => calls[c].result = Cooldown(1)

\* the check ran one second before the week was over and threw COOLDOWN:1
C8_Witness ==
  \E c \in DOMAIN calls :
    /\ calls[c].pc = "done"
    /\ now - users[calls[c].uid].lastUsernameChange[1] = COOLDOWN_DAYS * DAY - SECOND
    /\ calls[c].result = Cooldown(1)

Refused(c) ==
  /\ calls[c].fn \in {"reserveUsername", "reserveInitialUsername"}
  /\ calls[c].pc = "done"
  /\ calls[c].result.err \in {"USERNAME_TAKEN", "COOLDOWN"}

\* C11: whenever reserveUsername or reserveInitialUsername fails with
\* USERNAME_TAKEN or COOLDOWN:n, no reservation record and no account record
\* has been changed by that call: with nothing else in flight the store is
\* what it was when the call was made, and the call had buffered no write.
C11_RefusedCallChangesNothing ==
  \A c \in DOMAIN calls :
    Refused(c) => <<users, usernames>> = pre /\ calls[c].writes = <<>>

\* a change was refused by the cooldown: the old username is still reserved
\* to the account, the new one is reserved to nobody
C11_Witness ==
  \E c \in DOMAIN calls :
    /\ Refused(c)
    /\ calls[c].result = Cooldown(COOLDOWN_DAYS)
    /\ calls[c].oldUsername # NoName
    /\ usernames[calls[c].oldUsername].exists
    /\ usernames[calls[c].oldUsername].uid = calls[c].uid
    /\ ~usernames[calls[c].newUsername].exists

\* the change in slot c went through and released old, which was reserved to
\* the account
ChangedFrom(c) ==
  /\ ChangesHandle(c)
  /\ calls[c].pc = "done" /\ calls[c].result = Ok
  /\ calls[c].deleted.exists
  /\ calls[c].deleted.uid = calls[c].uid

\* the caller's kept result is a lookup made on the store as it is now
LookedUp(r) == calls[r].fn = "lookupUidByUsername" /\ calls[r].at = seq

\* C12: after reserveUsername(u1, new, old) succeeds (old # new, old
\* previously reserved to u1), lookupUidByUsername(old) returns null and
\* lookupUidByUsername(new) returns u1.
C12_LookupAfterChange ==
  \A c \in DOMAIN calls :
    (ChangedFrom(c) /\ LookedUp(ReadSlot)) =>
      /\ calls[ReadSlot].newUsername = calls[c].oldUsername =>
           calls[ReadSlot].found = "null"
      /\ calls[ReadSlot].newUsername = calls[c].newUsername =>
           calls[ReadSlot].found = calls[c].uid

\* C13: case normalization.  After reserveInitialUsername(A, "Alice")
\* succeeds, lookupUidByUsername("alice") returns A: a lookup of any spelling
\* of the reserved handle returns the account.
C13_CaseNormalization ==
  \A c \in DOMAIN calls :
    (/\ calls[c].fn = "reserveInitialUsername"
     /\ calls[c].pc = "done" /\ calls[c].result = Ok
     /\ LookedUp(ReadSlot)
     /\ toLowerCase(calls[ReadSlot].newUsername) = toLowerCase(calls[c].newUsername)) =>
      calls[ReadSlot].found = calls[c].uid

\* the rejection of a name that fails validateUsername
InvalidFormat == [err |-> "INVALID_FORMAT", left |-> 0]

\* C14: a handle that fails validateUsername, passed to reserveUsername or
\* reserveInitialUsername, is rejected with an invalid-format error before
\* any storage read or write: the call never gets past its first read.
C14_InvalidRejectedBeforeStorage ==
  \A c \in DOMAIN calls :
    (/\ calls[c].fn \in {"reserveUsername", "reserveInitialUsername"}
     /\ ~validateUsername(calls[c].newUsername)) =>
      /\ calls[c].pc \notin {"getUser", "release", "reserve", "update", "commit"}
      /\ calls[c].pc = "done" => calls[c].result = InvalidFormat

\* the step is an isUsernameAvailable call whose result lands in the read slot
ChecksAvailability ==
  /\ calls'[ReadSlot] # calls[ReadSlot]
  /\ calls'[ReadSlot].fn = "isUsernameAvailable"

\* C16: isUsernameAvailable(h, uid) returns true exactly when no reservation
\* for h exists or the reservation's uid equals uid; it writes nothing, and a
\* call repeated with no write in between returns what the call before it
\* returned.
C16_AvailabilityIsAPureRead ==
  [][ChecksAvailability =>
       LET h == calls'[ReadSlot].newUsername
           uid == calls'[ReadSlot].uid
       IN  /\ calls'[ReadSlot].available =
                (~usernames[h].exists \/ usernames[h].uid = uid)
           /\ users' = users /\ usernames' = usernames
           /\ calls'[ReadSlot].again =>
                calls'[ReadSlot].available = calls[ReadSlot].available]_vars

\* the call was repeated on a handle the account itself has reserved, and
\* said true both times
C16_Witness ==
  /\ calls[ReadSlot].fn = "isUsernameAvailable"
  /\ calls[ReadSlot].again
  /\ calls[ReadSlot].available
  /\ usernames[calls[ReadSlot].newUsername].exists
  /\ usernames[calls[ReadSlot].newUsername].uid = calls[ReadSlot].uid

\* the value of lastUsernameChange in a user document (undefined when the
\* document does not exist)
LastChange(doc) == IF doc.exists THEN doc.lastUsernameChange ELSE Unset

\* C15: users/{uid}.lastUsernameChange changes only inside a successful
\* reserveUsername transaction, together with users/{uid}.username: every
\* step that changes it is the commit of a reserveUsername call of that
\* account, which sets username to the new name and the timestamp to now; no
\* step of reserveInitialUsername, upsertUser, updateUserProfile,
\* updateProfilePhoto, touchLastSeen, blockUser or unblockUser changes it.
C15_LastChangeFrame ==
  [][\A u \in DOMAIN users :
       LastChange(users'[u]) # LastChange(users[u]) =>
         \E c \in DOMAIN calls :
           /\ Commits(c)
           /\ calls[c].fn = "reserveUsername"
           /\ calls[c].uid = u
           /\ users'[u].username = calls[c].newUsername
           /\ users'[u].lastUsernameChange = Stamp(now)]_vars

\* an account changed its username, and later uploaded a photo, was seen and
\* blocked the other account: the timestamp of the change is still in place
C15_Witness ==
  \E u \in DOMAIN users :
    /\ users[u].exists
    /\ users[u].lastUsernameChange = Stamp(0)
    /\ users[u].lastPhotoChange = Stamp(now)
    /\ users[u].blockedUsers # {}
    /\ now > 0

\* C17: Supabase variant.  When two different accounts call updateUsername
\* concurrently with inputs that clean to the same username, at most one call
\* succeeds and the other fails with 'That username is already taken.'; no
\* reachable state has two users rows with the same non-null username.
C17_RowsHaveDistinctUsernames ==
  /\ \A u, v \in DOMAIN rows :
       (u # v /\ rows[u].username # NoName) => rows[u].username # rows[v].username
  /\ \A c \in DOMAIN calls :
       (/\ calls[c].fn = "updateUsername" /\ calls[c].pc = "done"
        /\ \E v \in DOMAIN rows :
             v # calls[c].uid /\ rows[v].username = calls[c].newUsername) =>
         calls[c].result = Taken

\* C18: Supabase variant.  For every account, any two successful
\* updateUsername calls are at least 7 days apart, also when the account
\* issues calls concurrently (for example from two tabs).
C18_RowChangesAWeekApart ==
  \A u \in DOMAIN rows :
    \A i, j \in DOMAIN changes[u] :
      i < j => changes[u][j] - changes[u][i] >= COOLDOWN_DAYS * DAY

\* call c is a sendMessage whose receiver had the sender blocked when the call
\* was made and still has
SendsWhileBlocked(c) ==
  /\ calls[c].fn = "sendMessage"
  /\ calls[c].blocked
  /\ calls[c].uid \in users[calls[c].to].blockedUsers

\* C19: while the receiver has the sender blocked, a sendMessage from the
\* sender to the receiver stores no message and changes neither the unread
\* count nor the last-message fields of the chat
C19_BlockedSendStoresNothing ==
  [][\A c \in DOMAIN calls :
       SendsWhileBlocked(c) /\ Steps(c) => messages' = messages /\ chats' = chats]_vars

\* the number of sendMessage calls to uid that completed after uid's last
\* clearUnread, read off the history from its end
RECURSIVE SinceLastClear(_, _)
SinceLastClear(log, uid) ==
  IF log = <<>> THEN 0
  ELSE LET e == log[Len(log)]
       IN  IF e = ClearBy(uid) THEN 0
           ELSE (IF e = SendTo(uid) THEN 1 ELSE 0)
                + SinceLastClear(SubSeq(log, 1, Len(log) - 1), uid)

\* C20: in every chat, under any interleaving of sendMessage and clearUnread,
\* unreadCount[u] is the number of sendMessage calls to u completed since u's
\* last clearUnread; clearUnread by u leaves the other participant's count alone
C20_UnreadCountsCompletedSends ==
  \A id \in DOMAIN chats : \A u \in chats[id].participants :
    chats[id].unreadCount[u] = SinceLastClear(sent[id], u)

\* both participants have an unread message, one of them after it cleared
\* its count of an earlier message
C20_Witness ==
  \E id \in DOMAIN chats : \E u, v \in chats[id].participants :
    /\ u # v
    /\ chats[id].unreadCount[u] = 1
    /\ chats[id].unreadCount[v] = 1
    /\ \E i \in 2..Len(sent[id]) :
         sent[id][i] = ClearBy(u) /\ sent[id][i - 1] = SendTo(u)

\* call c is an upsertUser for a new account, in its loop or its fallback
UpsertsNew(c) ==
  calls[c].fn = "upsertUser" /\ calls[c].pc \notin {"idle", "getDoc", "merge"}

\* the step call c takes out of the catch of a reservation attempt
AfterAttempt(c) == UpsertsNew(c) /\ calls[c].pc = "settled" /\ Steps(c)

\* the loop and the fallback of upsertUser, step by step
UpsertLoop(c) ==
  /\ UpsertsNew(c) => calls[c].attempts <= MAX_USERNAME_ATTEMPTS
  \* an attempt inside the loop uses a generated name, the one after it the fallback
  /\ UpsertsNew(c) /\ calls[c].pc = "setDoc" =>
       IF calls[c].attempts < MAX_USERNAME_ATTEMPTS
       THEN calls[c].newUsername \in Handles
       ELSE calls[c].newUsername = FallbackUsername(calls[c].uid)
  \* another attempt is made only after USERNAME_TAKEN, and is counted
  /\ AfterAttempt(c) /\ calls'[c].pc = "setDoc" =>
       /\ calls[c].result = UsernameTaken
       /\ calls[c].attempts < MAX_USERNAME_ATTEMPTS
       /\ calls'[c].attempts = calls[c].attempts + 1
  \* success returns and any other error is rethrown
  /\ AfterAttempt(c) /\ calls[c].attempts < MAX_USERNAME_ATTEMPTS
                     /\ calls[c].result # UsernameTaken =>
       calls'[c].pc = "done" /\ calls'[c].result = calls[c].result
  \* after the fallback attempt the call returns, whatever the attempt gave
  /\ AfterAttempt(c) /\ calls[c].attempts = MAX_USERNAME_ATTEMPTS =>
       calls'[c].pc = "done" /\ calls'[c].result = Ok

\* C29: upsertUser for a new account makes at most 5 reservation attempts with
\* generated usernames, retrying only on USERNAME_TAKEN and rethrowing any
\* other error, then exactly one attempt with the fallback name, and every
\* upsertUser call finishes
C29_UpsertTerminates ==
  /\ [][\A c \in DOMAIN calls : UpsertLoop(c)]_vars
  /\ \A c \in Calls : (calls[c].fn = "upsertUser") ~> (calls[c].pc = "done")

\* an upsertUser has returned after five refused attempts and the fallback,
\* which reserved the fallback name
C29_Witness ==
  \E c \in DOMAIN calls :
    /\ calls[c].fn = "upsertUser"
    /\ calls[c].pc = "done"
    /\ calls[c].result = Ok
    /\ calls[c].attempts = MAX_USERNAME_ATTEMPTS
    /\ usernames[FallbackUsername(calls[c].uid)] # NoDoc

\* C23: in the simplified signup, a usernames record written for one account
\* is not overwritten for another, and no two accounts have the same
\* username in their user documents
C23_FirstReservationKept ==
  /\ [][\A h \in DOMAIN usernames :
          usernames[h].exists => usernames'[h].exists /\ usernames'[h].uid = usernames[h].uid]_vars
  /\ [](\A a, b \in DOMAIN users :
          a # b /\ users[a].exists /\ users[b].exists => users[a].username # users[b].username)

\* the fields of a chat document that only messages and reads may change
ChatState(doc) == <<doc.lastMessageText, doc.lastMessageFrom, doc.unreadCount>>

\* C25: a step of a getOrCreateChat call leaves an existing chat document's
\* lastMessageText, lastMessageFrom and unreadCount as they are
C25_GetOrCreateKeepsChat ==
  [][\A c \in DOMAIN calls :
       calls[c].fn = "getOrCreateChat" /\ Steps(c) =>
         \A id \in DOMAIN chats :
           chats[id].exists => ChatState(chats'[id]) = ChatState(chats[id])]_vars

\* no sendMessage call is in flight on chat id, and every message stored in
\* it was stored by a call that completed
AllSendsCompleted(id) ==
  /\ \A c \in DOMAIN calls :
       calls[c].fn = "sendMessage" /\ calls[c].chatId = id =>
         calls[c].pc \notin {"addDoc", "updateChatMeta"}
  /\ Len(messages[id]) > 0
  /\ Len(messages[id]) = Cardinality({i \in DOMAIN sent[id] : sent[id][i].op = "send"})

\* C28: once all sendMessage calls on a chat have completed, the chat's
\* last-message text and sender are those of the message stored last
C28_LastMessageIsLatest ==
  \A id \in DOMAIN chats :
    AllSendsCompleted(id) =>
      LET last == messages[id][Len(messages[id])]
      IN  /\ chats[id].lastMessageText = Preview(last.text)
          /\ chats[id].lastMessageFrom = last.from

\* C24: in the Supabase variant, unread_count[u] of a chat is the number of
\* sendMessage calls to u completed since u's last completed markChatAsRead,
\* under every interleaving of the two participants' calls
C24_UnreadRowCountsCompletedSends ==
  \A id \in DOMAIN chats : \A u \in DOMAIN chats[id].unread_count :
    chats[id].unread_count[u] = SinceLastClear(sent[id], u)

\* C21: v2 onAuthChange makes every callback with a non-null user when that
\* user's row exists already
C21_CallbackAfterRowExists ==
  \A i \in DOMAIN auth.delivered :
    auth.delivered[i].user # NoUser => auth.delivered[i].row

\* C22: v3 onAuthChange never makes two callbacks in a row with the profile of
\* the same user, and processes nothing before the getSession seed has run
C22_OneCallbackPerChange ==
  /\ \A i \in DOMAIN auth.delivered :
       i > 1 /\ auth.delivered[i].user # NoUser =>
         auth.delivered[i - 1].user # auth.delivered[i].user
  /\ ~auth.initialized =>
       /\ auth.delivered = <<>>
       /\ auth.currentId = NoUser
       /\ \A c \in DOMAIN calls : calls[c].pc = "idle"

\* the handlers of onAuthChange have finished after at least one callback
AuthSettled ==
  /\ auth.initialized
  /\ \A c \in DOMAIN calls : calls[c].pc = "idle"
  /\ auth.delivered # <<>>

\* C26: once the handlers of v3 onAuthChange have finished, the last callback
\* made is the one for the last session event
C26_LastCallbackIsLastEvent ==
  AuthSettled => auth.delivered[Len(auth.delivered)].user = auth.session

\* C27: on the chat page at most one messages subscription is active, and it
\* is the one of currentChatId
C27_OneSubscriptionOfCurrentChat ==
  /\ Cardinality(page.active) <= 1
  /\ \A s \in page.active : s.chatId = page.currentChatId

====
